---- MODULE Spec2Model ----
(***************************************************************************)
(* Video / IMU time-synchronisation and playback coordination.             *)
(*                                                                         *)
(* Times are integers counted in units of 1/13000 s, the least common      *)
(* grid of the millisecond (toFixed(3)) and of the 104 Hz sample period:   *)
(* 1 ms = 13 units, one sample period = 125 units.                         *)
(* An optional value (null in the source) is the empty sequence, a present *)
(* value v is <<v>>.                                                       *)
(***************************************************************************)
EXTENDS Integers, Sequences, FiniteSets, TLC

VARIABLES
  csvData,              \* S.csvData: None, or Some(sequence of parsed rows)
  csvTimesSeconds,      \* S.csvTimesSeconds
  syncOffset,           \* S.syncOffset
  videoMarkedTime,      \* S.videoMarkedTime
  dataMarkedTime,       \* S.dataMarkedTime
  setSyncBtnDisabled,   \* window.setSyncBtn.disabled
  dataSliderListeners,  \* number of S.dataSliderListener closures attached to the slider
  imuCharts,            \* TRUE iff S.imuCharts holds chart instances
  chartMin, chartMax,   \* chart.options.scales.x.min / max of the three charts
  markerPos,            \* marker.style.left of the three markers, a record num/den/nan
  sliderValue,          \* dataTimelineSlider.value
  sliderMax,            \* dataTimelineSlider.max
  imuPlaying,           \* playback.js imuPlaying
  lastFrameTs,          \* playback.js lastFrameTs: None, or Some(0) when a frame time is held
  pendingTicks,         \* requestAnimationFrame(tick) callbacks scheduled since the last stop / dataset load
  staleTicks,           \* tick callbacks scheduled before the last stop / dataset load, still queued
  timestamps,           \* S.timestamps
  currentVideoFileInfo, \* S.currentVideoFileInfo
  localStorage,         \* localStorage entries under the project keys
  videoCurrentTime,     \* video.currentTime
  videoDuration,        \* video.duration
  uploadedVideoReady,   \* movenet.js uploadedVideoReady
  currentVideoStep,     \* movenet.js currentVideoStep
  totalVideoSteps,      \* movenet.js totalVideoSteps
  pendingVideo,         \* duration of a selected video whose metadata has not arrived yet
  speedValue,           \* imuSpeedSelect.value
  videoPaused,          \* video.paused
  currentMode,          \* script.js currentMode: "live" or "upload"
  isRunning,            \* script.js isRunning
  animationIdQueued,    \* the callback named by animationId is still queued
  scheduledFrames,      \* requestAnimationFrame(renderFrame) callbacks queued
  awaitingPose,         \* renderFrame executions suspended at await detector.estimatePoses
  startsAwaiting,       \* handleStart executions suspended at await setupCamera / video.play,
                        \* counted per branch (live, upload)
  cameraStream,         \* TRUE iff script.js cameraStream holds a stream
  controls,             \* disabled attribute of play/pause, back, forward and speed:
                        \* "markup" (as the page's markup has it), "enabled", "disabled"
  pendingRead,          \* text of a chosen CSV file whose FileReader has not fired onload yet
  refreshTimers,        \* setTimeout(refreshEnabledState, 0) callbacks queued
  pollTries,            \* playback.js tries
  pollActive,           \* the start-up interval has not been cleared
  combined,             \* the state of Combined IMU Video/script.js run beside this page:
                        \* its time axis, marks, syncOffset and chart window
  appliedMarks,         \* history: the marks (v, d) the last apply took effect with
  loopVariant,          \* the page whose pose render loop runs: "combined", "videoWeb"
                        \* or "progress1"
  btConnected,          \* WebBluetooth.js btConnected
  btReady,              \* WebBluetooth.js btReady
  commandChar,          \* TRUE iff WebBluetooth.js commandChar is not undefined
  uiState,              \* the argument of the last updateState call (0 before any)
  linkUp,               \* the GATT server of the device is connected
  scansAwaiting,        \* scanForDevices executions suspended at each of its awaits
  writesInFlight,       \* writeValueWithResponse promises not settled yet
  lastOp,               \* history: the handler that ran last ("tickStale": a tick out of
                        \* staleTicks; "dataScrubPlaying": a scrub that found the driver Playing)
  rendered,             \* history: the last handler executed the body of updateChartsForTimeSeconds
  lastInput,            \* history: the file content the last handler read (NoInput when it read none)
  autoRun               \* history: play() took effect and no user input came since

vars == <<csvData, csvTimesSeconds, syncOffset, videoMarkedTime, dataMarkedTime,
          setSyncBtnDisabled, dataSliderListeners, imuCharts, chartMin, chartMax,
          markerPos, sliderValue, sliderMax, imuPlaying, lastFrameTs, pendingTicks,
          staleTicks, timestamps, currentVideoFileInfo, localStorage,
          videoCurrentTime, videoDuration, uploadedVideoReady, currentVideoStep,
          totalVideoSteps, pendingVideo, speedValue, videoPaused, currentMode,
          isRunning, animationIdQueued, scheduledFrames, awaitingPose, startsAwaiting,
          cameraStream, controls, pendingRead, refreshTimers, pollTries, pollActive,
          combined, appliedMarks, loopVariant, btConnected, btReady, commandChar,
          uiState, linkUp, scansAwaiting, writesInFlight, lastOp, rendered, lastInput, autoRun>>

syncVars  == <<syncOffset, videoMarkedTime, dataMarkedTime, setSyncBtnDisabled>>
csvVars   == <<csvData, csvTimesSeconds, dataSliderListeners, imuCharts, sliderMax>>
chartVars == <<chartMin, chartMax, markerPos>>
playVars  == <<imuPlaying, lastFrameTs, pendingTicks, staleTicks>>
videoVars == <<videoCurrentTime, videoDuration, uploadedVideoReady,
               currentVideoStep, totalVideoSteps, pendingVideo, videoPaused>>
trackVars == <<currentMode, isRunning, animationIdQueued, scheduledFrames, awaitingPose,
               startsAwaiting, cameraStream>>
enableVars == <<controls, pendingRead, refreshTimers, pollTries, pollActive>>
variantVars == <<combined, appliedMarks, loopVariant>>
btVars == <<btConnected, btReady, commandChar, uiState, linkUp, scansAwaiting, writesInFlight>>
projVars  == <<timestamps, currentVideoFileInfo, localStorage>>

----------------------------------------------------------------------------
(* Optional values *)
None == <<>>
Some(v) == <<v>>
IsNull(x) == x = <<>>
Val(x) == x[1]

Max(a, b) == IF a >= b THEN a ELSE b
Min(a, b) == IF a <= b THEN a ELSE b

----------------------------------------------------------------------------
(* Units and program constants *)
UnitsPerSecond == 13000
UnitsPerMs == 13
SAMPLE_RATE_HZ == 104
SamplePeriod == UnitsPerSecond \div SAMPLE_RATE_HZ
VIDEO_TIMESTEP_FPS == 30
windowSize == 5 * UnitsPerSecond
sliderMin == 0
sliderStep == 130
PollLimit == 40

(* Bounds of the model *)
MaxRows == 2
MaxPending == 2
MaxTimestamps == 1
MaxLoops == 2
MaxNotes == 3
MaxScans == 2
LongRows == 28


(* Inputs of the model *)
(* video files by name and size; a File without a name *)
Files == {[name |-> "v1", size |-> 1]}
OtherFiles == {[name |-> "v1", size |-> 2], [name |-> "v2", size |-> 1]}
AllFiles == Files \cup OtherFiles
NamelessFile == [name |-> "", size |-> 1]
VideoDurations == {3 * UnitsPerSecond}
VideoTimes == {0, (windowSize \div 2), 3 * UnitsPerSecond}
ScrubTimes == {k * SamplePeriod : k \in 0..MaxRows} \cup
              {k * SamplePeriod + 60 : k \in 0..(MaxRows - 1)}
SpeedValues == {1, 2}
FrameDts == {0, 208}
(* video times around the rounding of the step index: 0.36, 0.54 and 1.5 steps; *)
(* a video shorter than half a step                                            *)
StepDurations == {100, 3 * UnitsPerSecond}
StepTimes == {0, 100, 156, 234, 650, 3 * UnitsPerSecond}

----------------------------------------------------------------------------
(* CSV text: a sequence of lines; a line is blank (only white space) or a  *)
(* sequence of comma-separated cells; a cell parses to a finite number or  *)
(* to NaN.                                                                 *)
Cell(v) == [fin |-> TRUE, val |-> v]
BadCell == [fin |-> FALSE, val |-> 0]
Line(cells) == [blank |-> FALSE, cells |-> cells]
BlankLine == [blank |-> TRUE, cells |-> <<>>]
HeaderLine == Line(<<Cell(0), Cell(0)>>)

CleanText(n) == <<HeaderLine>> \o [i \in 1..n |-> Line(<<Cell(i), Cell(10 + i)>>)]
MessyText == <<BlankLine, HeaderLine, Line(<<BadCell, Cell(7)>>), BlankLine, Line(<<Cell(3)>>)>>
CsvTexts == {CleanText(n) : n \in 0..MaxRows} \cup {<<>>, <<BlankLine>>, MessyText}

(* exportImport.js 348: text.split(/\r?\n/).filter((l) => l.trim().length) *)
NonBlankLines(text) == SelectSeq(text, LAMBDA l : ~l.blank)

(* exportImport.js 359-365: one row, positionally matched to the headers *)
ParseRow(headers, line) ==
  [j \in 1..Len(headers) |->
     IF j <= Len(line.cells) /\ line.cells[j].fin THEN line.cells[j].val ELSE 0]

(* mutant of ParseRows: a line with a missing or non-numeric cell is dropped *)
ParseRowsSkipBad(lines) ==
  LET good == SelectSeq(Tail(lines),
                        LAMBDA l : /\ Len(l.cells) >= Len(lines[1].cells)
                                   /\ \A j \in DOMAIN l.cells : l.cells[j].fin)
  IN  [i \in 1..Len(good) |-> ParseRow(lines[1].cells, good[i])]

(* exportImport.js 351-368 *)
ParseRows(lines) ==
  [i \in 1..(Len(lines) - 1) |-> ParseRow(lines[1].cells, lines[i + 1])]

(* mutant of TimeAxis: the sample index counted from 1 *)
TimeAxisOneBased(rows) == [i \in 1..Len(rows) |-> (i * UnitsPerSecond) \div SAMPLE_RATE_HZ]

(* exportImport.js 371-372: idx / hz *)
TimeAxis(rows) == [i \in 1..Len(rows) |-> ((i - 1) * UnitsPerSecond) \div SAMPLE_RATE_HZ]

(* mutant of TotalTime: the number of samples over the rate *)
TotalTimeCount(times) == Len(times) * SamplePeriod

(* exportImport.js 374-376 *)
TotalTime(times) == IF Len(times) > 0 THEN times[Len(times)] ELSE 0

(* Number.prototype.toFixed(3) read back by parseFloat: nearest millisecond *)
ToFixed3(x) == ((2 * x + UnitsPerMs) \div (2 * UnitsPerMs)) * UnitsPerMs

----------------------------------------------------------------------------
(* Chart window (part_003 updateChartsForTimeSeconds) *)
WindowStart(t) == Max(0, t - windowSize \div 2)
WindowEnd(t) == t + windowSize \div 2

(* marker percentage, kept exact as num/den; Math.min(Math.max(p*100,0),100) *)
MarkerPos(t) ==
  LET n0 == t - WindowStart(t)
      d0 == WindowEnd(t) - WindowStart(t)
      n == IF d0 < 0 THEN 0 - n0 ELSE n0
      d == IF d0 < 0 THEN 0 - d0 ELSE d0
  IN  IF d = 0 /\ n = 0 THEN [nan |-> TRUE, num |-> 0, den |-> 1]
      ELSE IF n <= 0 THEN [nan |-> FALSE, num |-> 0, den |-> 1]
      ELSE IF n >= d THEN [nan |-> FALSE, num |-> 100, den |-> 1]
      ELSE [nan |-> FALSE, num |-> 100 * n, den |-> d]

(* mutant of FindIndexFrom: strictly after instead of at or after *)
RECURSIVE FindIndexFromStrict(_, _, _)
FindIndexFromStrict(times, time, i) ==
  IF i > Len(times) THEN 0
  ELSE IF times[i] > time THEN i
  ELSE FindIndexFromStrict(times, time, i + 1)

(* Array.prototype.findIndex((t) => t >= time): 0 when none is found *)
RECURSIVE FindIndexFrom(_, _, _)
FindIndexFrom(times, time, i) ==
  IF i > Len(times) THEN 0
  ELSE IF times[i] >= time THEN i
  ELSE FindIndexFrom(times, time, i + 1)

(* exportImport.js 309-310: index of the snapped sample (1-based) *)
SnapIndex(times, time) ==
  LET foundIndex == FindIndexFrom(times, time, 1)
  IN  IF foundIndex = 0 THEN Len(times) ELSE Max(foundIndex, 1)

SnapTime(times, time) == times[SnapIndex(times, time)]

----------------------------------------------------------------------------
(* Shared fragments of the handlers *)

(* mutant of UpdateChartsForTimeSeconds: the two early returns are missing *)
UpdateChartsUnguarded(timeSeconds) ==
  /\ chartMin' = WindowStart(timeSeconds)
  /\ chartMax' = WindowEnd(timeSeconds)
  /\ markerPos' = Some(MarkerPos(timeSeconds))
  /\ rendered' = TRUE

(* part_003 120-152 updateChartsForTimeSeconds *)
UpdateChartsForTimeSeconds(timeSeconds) ==
  IF IsNull(csvData) \/ Len(csvTimesSeconds) = 0 \/ ~imuCharts
  THEN /\ UNCHANGED chartVars
       /\ rendered' = FALSE
  ELSE /\ chartMin' = WindowStart(timeSeconds)
       /\ chartMax' = WindowEnd(timeSeconds)
       /\ markerPos' = Some(MarkerPos(timeSeconds))
       /\ rendered' = TRUE

NoRender == UNCHANGED chartVars /\ rendered' = FALSE

(* mutant of AdjustedTime: the sign convention of the earlier variants *)
AdjustedTimePlus(videoTimeSeconds, offset) == videoTimeSeconds + offset

(* part_003 167: adjustedTime = videoTimeSeconds - syncOffset *)
AdjustedTime(videoTimeSeconds, offset) == videoTimeSeconds - offset

(* part_003 166-169 IMU.updateChartsForVideoTime *)
UpdateChartsForVideoTime(videoTimeSeconds) ==
  UpdateChartsForTimeSeconds(AdjustedTime(videoTimeSeconds, syncOffset))

(* mutant of UpdateChartsForDataTime: the data time is sent through the offset *)
UpdateChartsForDataTimeShifted(dataTimeSeconds) == UpdateChartsForVideoTime(dataTimeSeconds)

(* part_003 158-160 IMU.updateChartsForDataTime *)
UpdateChartsForDataTime(dataTimeSeconds) == UpdateChartsForTimeSeconds(dataTimeSeconds)

(* exportImport.js 304-323 S.dataSliderListener, run for every attached copy *)
DataSliderListener(value) ==
  IF dataSliderListeners = 0 \/ Len(csvTimesSeconds) = 0
  THEN UNCHANGED dataMarkedTime /\ NoRender
  ELSE /\ dataMarkedTime' = Some(SnapTime(csvTimesSeconds, value))
       /\ UpdateChartsForDataTime(SnapTime(csvTimesSeconds, value))

(* sync.js 15-18 checkSyncReady, on the marks as they are after the handler *)
CheckSyncReady(vMark, dMark) == ~(~IsNull(vMark) /\ ~IsNull(dMark))

(* mutant of getProjectStorageKey: the size is left out of the key *)
getProjectStorageKeyByName(info) == <<"project", info.name>>

(* state.js 78-81 getProjectStorageKey: `project_${name}_${size}`, as the     *)
(* parts of the template string                                              *)
getProjectStorageKey(info) == <<"project", info.name, info.size>>

(* the keys localStorage can hold *)
StorageKeys == {getProjectStorageKey(f) : f \in AllFiles}

(* state.js 83-102 saveProjectToLocal *)
SaveProjectToLocal(store, info, offset, tss) ==
  IF IsNull(info) THEN store
  ELSE [store EXCEPT ![getProjectStorageKey(Val(info))] =
                       Some([syncOffset |-> offset, timestamps |-> tss])]

(* The playback driver's variables as one record, so that the handlers can  *)
(* be composed in the order the code runs them.                             *)
PlayState ==
  [imuPlaying |-> imuPlaying, lastFrameTs |-> lastFrameTs,
   pendingTicks |-> pendingTicks, staleTicks |-> staleTicks]

SetPlayState(p) ==
  /\ imuPlaying' = p.imuPlaying
  /\ lastFrameTs' = p.lastFrameTs
  /\ pendingTicks' = p.pendingTicks
  /\ staleTicks' = p.staleTicks

(* mutant of pause: the flag is toggled instead of cleared *)
pauseToggles(p) ==
  [imuPlaying |-> ~p.imuPlaying, lastFrameTs |-> None,
   pendingTicks |-> 0, staleTicks |-> p.staleTicks + p.pendingTicks]

(* playback.js 116-120 pause: every tick still queued was scheduled before this stop *)
pause(p) ==
  [imuPlaying |-> FALSE, lastFrameTs |-> None,
   pendingTicks |-> 0, staleTicks |-> p.staleTicks + p.pendingTicks]

(* mutant of SliderInputListener: a scrub does not stop the driver *)
SliderInputListenerOff(p) == p

(* playback.js 174-176 slider "input" listener *)
SliderInputListener(p) == IF p.imuPlaying THEN pause(p) ELSE p

(* requestAnimationFrame(tick) *)
RequestTick(p) == [p EXCEPT !.pendingTicks = p.pendingTicks + 1]

(* mutant of ClampToSliderRange: the value is passed through *)
ClampToSliderRangeOff(value) == value

(* playback.js 53-58 clampToSliderRange *)
ClampToSliderRange(value) == Min(Max(value, sliderMin), sliderMax)

(* history of the handlers: which one ran, and the file content it read *)
NoInput == [text |-> <<>>, syncOffset |-> None, timestamps |-> None, video |-> None,
            index |-> None]
HistoryInput(op, input) == lastOp' = op /\ lastInput' = input
History(op) == HistoryInput(op, NoInput)

(* mutant of SetupDataTimelineSlider: the previous listener is not removed *)
SetupDataTimelineSliderNoRemove(listeners) == listeners + 1

(* exportImport.js 296-326 setupDataTimelineSlider: remove the previous listener, *)
(* add the new one; the result is the number of listeners attached              *)
SetupDataTimelineSlider(listeners) == (IF listeners > 0 THEN listeners - 1 ELSE 0) + 1

----------------------------------------------------------------------------
(* Dataset load: exportImport.js 344-397 reader.onload on the text of the file *)
ReaderOnLoad(text) ==
  LET lines == NonBlankLines(text)
      rows == ParseRows(lines)
      times == TimeAxis(rows)
      totalTime == TotalTime(times)
  IN  /\ Len(lines) > 0
      /\ csvData' = Some(rows)
      /\ csvTimesSeconds' = times
      /\ sliderMax' = ToFixed3(totalTime)
      /\ sliderValue' = 0
      (* initImuCharts (x range 0..5) then updateImuChartsFull *)
      /\ imuCharts' = TRUE
      /\ chartMin' = 0
      /\ chartMax' = Max(windowSize, totalTime)
      /\ markerPos' = markerPos
      /\ dataSliderListeners' = SetupDataTimelineSlider(dataSliderListeners)
      /\ staleTicks' = staleTicks + pendingTicks
      /\ pendingTicks' = 0
      /\ UNCHANGED <<imuPlaying, lastFrameTs>>
      /\ UNCHANGED <<syncVars, videoVars, projVars, speedValue>>
      /\ rendered' = FALSE
      /\ autoRun' = FALSE
      /\ UNCHANGED trackVars
      /\ HistoryInput("loadCsv", [NoInput EXCEPT !.text = text])

(* exportImport.js 349: a text without a non-blank line changes nothing *)
ReaderOnLoadEmpty(text) ==
  /\ Len(NonBlankLines(text)) = 0
  /\ UNCHANGED <<csvVars, chartVars, sliderValue, playVars, syncVars, videoVars, projVars, speedValue>>
  /\ rendered' = FALSE
  /\ autoRun' = FALSE
  /\ UNCHANGED trackVars
  /\ HistoryInput("loadCsvEmpty", [NoInput EXCEPT !.text = text])

(* exportImport.js 338-397: a CSV file is chosen, read, and reader.onload runs *)
LoadCsv(text) == ReaderOnLoad(text) /\ UNCHANGED <<enableVars, variantVars, btVars>>
LoadCsvEmpty(text) == ReaderOnLoadEmpty(text) /\ UNCHANGED <<enableVars, variantVars, btVars>>

(* The user drags the data slider to t: the browser sets the value and fires "input" *)
dataSliderInput(t) ==
  /\ sliderMin <= t /\ t <= sliderMax
  /\ sliderValue' = t
  /\ SetPlayState(SliderInputListener(PlayState))
  /\ DataSliderListener(t)
  /\ UNCHANGED <<csvVars, syncOffset, videoMarkedTime, setSyncBtnDisabled, videoVars, projVars, speedValue>>
  /\ autoRun' = FALSE
  /\ UNCHANGED <<trackVars, enableVars>>
  /\ History(IF imuPlaying THEN "dataScrubPlaying" ELSE "dataScrub")

(* the data slider of this page alone is dragged to t *)
DataScrub(t) == dataSliderInput(t) /\ UNCHANGED <<variantVars, btVars>>

(* mutant of MarkVideo: the mark is applied as the offset at once *)
MarkVideoApplies ==
  /\ videoMarkedTime' = Some(videoCurrentTime)
  /\ syncOffset' = videoCurrentTime
  /\ setSyncBtnDisabled' = CheckSyncReady(videoMarkedTime', dataMarkedTime)
  /\ UNCHANGED <<dataMarkedTime, csvVars, sliderValue, playVars, videoVars, projVars, speedValue>>
  /\ NoRender
  /\ autoRun' = FALSE
  /\ UNCHANGED <<trackVars, enableVars, variantVars, btVars>>
  /\ History("markVideo")

(* sync.js 22-33 markVideoBtn click *)
markVideoBtnClick ==
  /\ videoMarkedTime' = Some(videoCurrentTime)
  /\ setSyncBtnDisabled' = CheckSyncReady(videoMarkedTime', dataMarkedTime)
  /\ UNCHANGED <<syncOffset, dataMarkedTime, csvVars, sliderValue, playVars, videoVars, projVars, speedValue>>
  /\ NoRender
  /\ autoRun' = FALSE
  /\ UNCHANGED <<trackVars, enableVars>>
  /\ History("markVideo")

(* the mark-video button of this page alone *)
MarkVideo == markVideoBtnClick /\ UNCHANGED <<variantVars, btVars>>

(* mutant of MarkData: the dataset is not looked at *)
MarkDataUnguarded ==
  /\ dataMarkedTime' = (IF IsNull(dataMarkedTime) THEN Some(0) ELSE dataMarkedTime)
  /\ setSyncBtnDisabled' = CheckSyncReady(videoMarkedTime, dataMarkedTime')
  /\ UNCHANGED <<syncOffset, videoMarkedTime, csvVars, sliderValue, playVars, videoVars, projVars, speedValue>>
  /\ NoRender
  /\ autoRun' = FALSE
  /\ UNCHANGED <<trackVars, enableVars, variantVars, btVars>>
  /\ History("markData")

(* sync.js 36-50 markDataBtn click *)
markDataBtnClick ==
  /\ IF IsNull(csvData) \/ Len(csvTimesSeconds) = 0
     THEN UNCHANGED <<dataMarkedTime, setSyncBtnDisabled>>
     ELSE /\ dataMarkedTime' = (IF IsNull(dataMarkedTime) THEN Some(0) ELSE dataMarkedTime)
          /\ setSyncBtnDisabled' = CheckSyncReady(videoMarkedTime, dataMarkedTime')
  /\ UNCHANGED <<syncOffset, videoMarkedTime, csvVars, sliderValue, playVars, videoVars, projVars, speedValue>>
  /\ NoRender
  /\ autoRun' = FALSE
  /\ UNCHANGED <<trackVars, enableVars>>
  /\ History("markData")

(* the mark-data button of this page alone *)
MarkData == markDataBtnClick /\ UNCHANGED <<variantVars, btVars>>

(* mutant of ApplySync: the offset with the sign of the earlier variants *)
ApplySyncSwapped ==
  /\ IF IsNull(videoMarkedTime) \/ IsNull(dataMarkedTime)
     THEN UNCHANGED <<syncVars, projVars>>
     ELSE /\ syncOffset' = Val(dataMarkedTime) - Val(videoMarkedTime)
          /\ videoMarkedTime' = None
          /\ dataMarkedTime' = None
          /\ setSyncBtnDisabled' = TRUE
          /\ localStorage' = SaveProjectToLocal(localStorage, currentVideoFileInfo,
                                                syncOffset', timestamps)
          /\ UNCHANGED <<timestamps, currentVideoFileInfo>>
  /\ UNCHANGED <<csvVars, sliderValue, playVars, videoVars, speedValue>>
  /\ NoRender
  /\ autoRun' = FALSE
  /\ UNCHANGED <<trackVars, enableVars, variantVars, btVars>>
  /\ History("applySync")

(* mutant of ApplySync: only the video mark is required, a null data mark counts as 0 *)
ApplySyncNullAsZero ==
  /\ IF IsNull(videoMarkedTime)
     THEN UNCHANGED <<syncVars, projVars>>
     ELSE /\ syncOffset' = Val(videoMarkedTime)
                             - (IF IsNull(dataMarkedTime) THEN 0 ELSE Val(dataMarkedTime))
          /\ videoMarkedTime' = None
          /\ dataMarkedTime' = None
          /\ setSyncBtnDisabled' = TRUE
          /\ localStorage' = SaveProjectToLocal(localStorage, currentVideoFileInfo,
                                                syncOffset', timestamps)
          /\ UNCHANGED <<timestamps, currentVideoFileInfo>>
  /\ UNCHANGED <<csvVars, sliderValue, playVars, videoVars, speedValue>>
  /\ NoRender
  /\ autoRun' = FALSE
  /\ UNCHANGED <<trackVars, enableVars, variantVars, btVars>>
  /\ History("applySync")

(* sync.js 53-72 setSyncBtn click *)
setSyncBtnClick ==
  /\ IF IsNull(videoMarkedTime) \/ IsNull(dataMarkedTime)
     THEN UNCHANGED <<syncVars, projVars>>
     ELSE /\ syncOffset' = Val(videoMarkedTime) - Val(dataMarkedTime)
          /\ videoMarkedTime' = None
          /\ dataMarkedTime' = None
          /\ setSyncBtnDisabled' = TRUE
          /\ localStorage' = SaveProjectToLocal(localStorage, currentVideoFileInfo,
                                                syncOffset', timestamps)
          /\ UNCHANGED <<timestamps, currentVideoFileInfo>>
  /\ UNCHANGED <<csvVars, sliderValue, playVars, videoVars, speedValue>>
  /\ NoRender
  /\ autoRun' = FALSE
  /\ UNCHANGED <<trackVars, enableVars>>
  /\ History("applySync")

(* the apply button of this page alone *)
ApplySync == setSyncBtnClick /\ UNCHANGED <<variantVars, btVars>>

----------------------------------------------------------------------------
(* IMU playback driver (playback.js) *)

(* playback.js 74-77 getMaxSeconds *)
getMaxSeconds == sliderMax

(* mutant of getStepSeconds: one slider step *)
getStepSecondsOneStep == sliderStep

(* playback.js 68-72 getStepSeconds: Math.max(0.25, step * 25) *)
getStepSeconds == Max(UnitsPerSecond \div 4, sliderStep * 25)

(* playback.js 60-66 setSliderTimeSeconds: set the value and dispatch "input". *)
(* The event reaches the data slider listener here; its effect on the driver  *)
(* (SliderInputListener) is applied by the caller on the driver's record.     *)
SetSliderTimeSeconds(seconds) ==
  /\ sliderValue' = ClampToSliderRange(seconds)
  /\ DataSliderListener(ClampToSliderRange(seconds))

(* playback.js 79-104 tick, run as an animation-frame callback *)
Tick(stale, elapsed) ==
  /\ IF stale THEN staleTicks > 0 ELSE pendingTicks > 0
  /\ LET p0 == IF stale THEN [PlayState EXCEPT !.staleTicks = staleTicks - 1]
                        ELSE [PlayState EXCEPT !.pendingTicks = pendingTicks - 1]
         dt == IF IsNull(lastFrameTs) THEN 0 ELSE elapsed
         p1 == [p0 EXCEPT !.lastFrameTs = Some(0)]
         nextT == sliderValue + dt * speedValue
         maxT == getMaxSeconds
         p2 == SliderInputListener(p1)
     IN  IF ~imuPlaying
         THEN /\ SetPlayState(p0)
              /\ UNCHANGED <<sliderValue, dataMarkedTime>>
              /\ NoRender
         ELSE IF nextT >= maxT
         THEN /\ SetSliderTimeSeconds(maxT)
              /\ SetPlayState([p2 EXCEPT !.imuPlaying = FALSE, !.lastFrameTs = None])
         ELSE /\ SetSliderTimeSeconds(nextT)
              /\ SetPlayState(RequestTick(p2))
  /\ UNCHANGED <<csvVars, syncOffset, videoMarkedTime, setSyncBtnDisabled, videoVars,
                 projVars, speedValue, autoRun>>
  /\ UNCHANGED <<trackVars, enableVars, variantVars, btVars>>
  /\ History(IF stale THEN "tickStale" ELSE "tick")

(* mutant of play: the duration is not looked at *)
playUnguarded(p) == RequestTick([p EXCEPT !.imuPlaying = TRUE, !.lastFrameTs = None])

(* playback.js 106-114 play *)
play(p) ==
  IF ~(getMaxSeconds > 0) THEN p
  ELSE RequestTick([p EXCEPT !.imuPlaying = TRUE, !.lastFrameTs = None])

(* playback.js 122-124, 147-151 playPauseBtn click -> togglePlay *)
TogglePlay ==
  /\ controls # "disabled"
  /\ pendingTicks + staleTicks < MaxPending
  /\ SetPlayState(IF imuPlaying THEN pause(PlayState) ELSE play(PlayState))
  /\ autoRun' = (~imuPlaying /\ getMaxSeconds > 0)
  /\ UNCHANGED <<csvVars, syncVars, sliderValue, videoVars, projVars, speedValue>>
  /\ NoRender
  /\ UNCHANGED <<trackVars, enableVars, variantVars, btVars>>
  /\ History("togglePlay")

(* playback.js 153-167 backBtn / forwardBtn click; dir is -1 or 1 *)
Step(dir) ==
  /\ controls # "disabled"
  /\ SetPlayState(SliderInputListener(pause(PlayState)))
  /\ SetSliderTimeSeconds(sliderValue + dir * getStepSeconds)
  /\ UNCHANGED <<csvVars, syncOffset, videoMarkedTime, setSyncBtnDisabled, videoVars,
                 projVars, speedValue>>
  /\ autoRun' = FALSE
  /\ UNCHANGED <<trackVars, enableVars, variantVars, btVars>>
  /\ History(IF dir < 0 THEN "back" ELSE "forward")

(* playback.js 126-130 refreshEnabledState: setEnabled(enabled), and playback *)
(* is paused when the controls are disabled                                   *)
refreshEnabledState ==
  /\ controls' = (IF getMaxSeconds > 0 /\ Len(csvTimesSeconds) > 0
                  THEN "enabled" ELSE "disabled")
  /\ SetPlayState(IF getMaxSeconds > 0 /\ Len(csvTimesSeconds) > 0
                  THEN PlayState ELSE pause(PlayState))

(* exportImport.js 338-343 and playback.js 133-136: the two "change" listeners *)
(* of csvInput; the file's text is being read, refreshEnabledState is on a    *)
(* timer of 0 ms                                                              *)
CsvInputChange(text) ==
  /\ IsNull(pendingRead)
  /\ refreshTimers = 0
  /\ pendingRead' = Some(text)
  /\ refreshTimers' = refreshTimers + 1
  /\ UNCHANGED <<controls, pollTries, pollActive>>
  /\ UNCHANGED <<csvVars, syncVars, sliderValue, playVars, videoVars, projVars, speedValue,
                 trackVars, variantVars, btVars>>
  /\ NoRender
  /\ autoRun' = FALSE
  /\ History("csvInputChange")

(* exportImport.js 344-397 reader.onload, when the read has finished *)
ReaderDone ==
  /\ ~IsNull(pendingRead)
  /\ pendingRead' = None
  /\ ReaderOnLoad(Val(pendingRead)) \/ ReaderOnLoadEmpty(Val(pendingRead))
  /\ UNCHANGED <<controls, refreshTimers, pollTries, pollActive, variantVars, btVars>>

(* playback.js 135: the timer of the csvInput change listener fires *)
RefreshTimer ==
  /\ refreshTimers > 0
  /\ refreshTimers' = refreshTimers - 1
  /\ refreshEnabledState
  /\ UNCHANGED <<pendingRead, pollTries, pollActive>>
  /\ UNCHANGED <<csvVars, syncVars, sliderValue, videoVars, projVars, speedValue, autoRun,
                 trackVars, variantVars, btVars>>
  /\ NoRender
  /\ History("refreshTimer")

(* playback.js 139-144: the start-up interval fires *)
PollTick ==
  /\ pollActive
  /\ pollTries' = pollTries + 1
  /\ refreshEnabledState
  /\ pollActive' = ~(getMaxSeconds > 0 \/ pollTries' > PollLimit)
  /\ UNCHANGED <<pendingRead, refreshTimers>>
  /\ UNCHANGED <<csvVars, syncVars, sliderValue, videoVars, projVars, speedValue, autoRun,
                 trackVars, variantVars, btVars>>
  /\ NoRender
  /\ History("pollTick")

(* refreshEnabledState run at some moment, by a timer of the csvInput change *)
(* listener or by the start-up polling                                       *)
RefreshEnabledState ==
  /\ refreshEnabledState
  /\ UNCHANGED <<csvVars, syncVars, sliderValue, videoVars, projVars, speedValue, autoRun>>
  /\ NoRender
  /\ UNCHANGED <<trackVars, pendingRead, refreshTimers, pollTries, pollActive, variantVars, btVars>>
  /\ History("refreshEnabledState")

(* the user picks a playback rate in imuSpeedSelect *)
ChangeSpeed(v) ==
  /\ controls # "disabled"
  /\ speedValue' = v
  /\ UNCHANGED <<csvVars, syncVars, sliderValue, playVars, videoVars, projVars>>
  /\ NoRender
  /\ autoRun' = FALSE
  /\ UNCHANGED <<trackVars, enableVars, variantVars, btVars>>
  /\ History("changeSpeed")

----------------------------------------------------------------------------
(* Video timeline (movenet.js) *)

(* mutant of RoundSteps: the step index is truncated instead of rounded *)
RoundStepsDown(t) == (t * VIDEO_TIMESTEP_FPS) \div UnitsPerSecond

(* Math.round(t * VIDEO_TIMESTEP_FPS) for t >= 0 *)
RoundSteps(t) == (2 * t * VIDEO_TIMESTEP_FPS + UnitsPerSecond) \div (2 * UnitsPerSecond)

(* movenet.js 462-469 *)
StepIndex(t, total) ==
  LET stepIndex == Max(0, RoundSteps(t))
  IN  IF total > 0 THEN Min(stepIndex, total) ELSE stepIndex

(* movenet.js 488-500 handleFileChange: a new source, metadata still to come *)
HandleFileChange(d) ==
  /\ uploadedVideoReady' = FALSE
  /\ pendingVideo' = Some(d)
  /\ videoCurrentTime' = 0
  /\ videoDuration' = 0
  /\ videoPaused' = TRUE
  /\ UNCHANGED <<currentVideoStep, totalVideoSteps>>
  /\ UNCHANGED <<csvVars, syncVars, sliderValue, playVars, projVars, speedValue>>
  /\ NoRender
  /\ autoRun' = FALSE
  /\ UNCHANGED <<trackVars, enableVars, variantVars, btVars>>
  /\ History("handleFileChange")

(* movenet.js 502-507 video.onloadedmetadata -> 418-446 setupVideoTimelineSlider *)
OnLoadedMetadata ==
  /\ ~IsNull(pendingVideo)
  /\ pendingVideo' = None
  /\ uploadedVideoReady' = TRUE
  /\ videoDuration' = Val(pendingVideo)
  /\ totalVideoSteps' = (IF Val(pendingVideo) > 0
                         THEN Max(1, RoundSteps(Val(pendingVideo))) ELSE 0)
  /\ currentVideoStep' = 0
  /\ UNCHANGED <<videoCurrentTime, videoPaused>>
  /\ UNCHANGED <<csvVars, syncVars, sliderValue, playVars, projVars, speedValue, autoRun>>
  /\ NoRender
  /\ UNCHANGED <<trackVars, enableVars, variantVars, btVars>>
  /\ History("onLoadedMetadata")

(* movenet.js 448-480 videoSliderListener; the slider holds 0 <= t <= duration *)
VideoScrub(t) ==
  /\ 0 <= t /\ (uploadedVideoReady => t <= videoDuration)
  /\ IF ~uploadedVideoReady
     THEN UNCHANGED <<videoCurrentTime, currentVideoStep>>
     ELSE /\ videoCurrentTime' = t
          /\ currentVideoStep' = StepIndex(t, totalVideoSteps)
  /\ UNCHANGED <<videoDuration, uploadedVideoReady, totalVideoSteps, pendingVideo,
                 videoPaused>>
  /\ UNCHANGED <<csvVars, syncVars, sliderValue, playVars, projVars, speedValue>>
  /\ NoRender
  /\ autoRun' = FALSE
  /\ UNCHANGED <<trackVars, enableVars, variantVars, btVars>>
  /\ History("videoScrub")

(* movenet.js 236-274 renderFrame: timeline update, then the IMU charts follow *)
(* the video through IMU.updateChartsForVideoTime; due: the throttle interval *)
(* IMU_UPDATE_THROTTLE_MS has passed since the last chart update              *)
renderFrameFollow(due) ==
  /\ uploadedVideoReady
  /\ currentVideoStep' = StepIndex(videoCurrentTime, totalVideoSteps)
  /\ IF due /\ ~IsNull(csvData) /\ Len(csvTimesSeconds) > 0
     THEN UpdateChartsForVideoTime(videoCurrentTime)
     ELSE NoRender
  /\ UNCHANGED <<videoCurrentTime, videoDuration, uploadedVideoReady, totalVideoSteps,
                 pendingVideo, videoPaused>>
  /\ UNCHANGED <<csvVars, syncVars, sliderValue, playVars, projVars, speedValue, autoRun>>
  /\ UNCHANGED <<trackVars, enableVars>>
  /\ History("renderFrame")

(* a frame of this page's render loop alone *)
RenderFrame(due) == renderFrameFollow(due) /\ UNCHANGED <<variantVars, btVars>>

----------------------------------------------------------------------------
(* Annotations and project key (playback.js 218-286, state.js 70-76) *)

(* state.js 70-76 IMU.setCurrentVideoFileInfo *)
SetCurrentVideoFileInfo(file) ==
  /\ currentVideoFileInfo' = (IF ~IsNull(file) /\ Val(file).name # ""
                              THEN Some([name |-> Val(file).name, size |-> Val(file).size])
                              ELSE None)
  /\ UNCHANGED <<timestamps, localStorage>>
  /\ UNCHANGED <<csvVars, syncVars, sliderValue, playVars, videoVars, speedValue>>
  /\ NoRender
  /\ autoRun' = FALSE
  /\ UNCHANGED <<trackVars, enableVars, variantVars, btVars>>
  /\ History("setCurrentVideoFileInfo")

(* playback.js 263-286 addTimestampBtn click, on a list of fewer than n records *)
AddTimestampUpTo(n) ==
  /\ Len(timestamps) < n
  /\ timestamps' = Append(timestamps, [time |-> videoCurrentTime])
  /\ localStorage' = SaveProjectToLocal(localStorage, currentVideoFileInfo,
                                        syncOffset, timestamps')
  /\ UNCHANGED currentVideoFileInfo
  /\ UNCHANGED <<csvVars, syncVars, sliderValue, playVars, videoVars, speedValue>>
  /\ NoRender
  /\ autoRun' = FALSE
  /\ UNCHANGED <<trackVars, enableVars, variantVars, btVars>>
  /\ History("addTimestamp")

AddTimestamp == AddTimestampUpTo(MaxTimestamps)

(* mutant of SelectTimestamp: the jump also moves the data slider *)
SelectTimestampMovesData(index) ==
  /\ IF index + 1 \in DOMAIN timestamps
     THEN /\ videoCurrentTime' = timestamps[index + 1].time
          /\ sliderValue' = ClampToSliderRange(timestamps[index + 1].time - syncOffset)
     ELSE UNCHANGED <<videoCurrentTime, sliderValue>>
  /\ UNCHANGED <<videoDuration, uploadedVideoReady, currentVideoStep, totalVideoSteps,
                 pendingVideo, videoPaused>>
  /\ UNCHANGED <<csvVars, syncVars, playVars, projVars, speedValue>>
  /\ NoRender
  /\ autoRun' = FALSE
  /\ UNCHANGED <<trackVars, enableVars, variantVars, btVars>>
  /\ History("selectTimestamp")

(* playback.js 218-233 selectTimestamp(index), index 0-based *)
SelectTimestamp(index) ==
  /\ IF index + 1 \in DOMAIN timestamps
     THEN videoCurrentTime' = timestamps[index + 1].time
     ELSE UNCHANGED videoCurrentTime
  /\ UNCHANGED <<videoDuration, uploadedVideoReady, currentVideoStep, totalVideoSteps,
                 pendingVideo, videoPaused>>
  /\ UNCHANGED <<csvVars, syncVars, sliderValue, playVars, projVars, speedValue>>
  /\ NoRender
  /\ autoRun' = FALSE
  /\ UNCHANGED <<trackVars, enableVars, variantVars, btVars>>
  /\ History("selectTimestamp")

(* mutant of Splice1: the last record is removed, whatever the index *)
Splice1Last(seq, index) == SubSeq(seq, 1, Len(seq) - 1)

(* Array.prototype.splice(index, 1), index 0-based *)
Splice1(seq, index) ==
  [k \in 1..(Len(seq) - 1) |-> IF k <= index THEN seq[k] ELSE seq[k + 1]]

(* playback.js 235-240 deleteTimestamp(index) *)
DeleteTimestamp(index) ==
  /\ IF index < 0 \/ index >= Len(timestamps)
     THEN UNCHANGED <<timestamps, localStorage>>
     ELSE /\ timestamps' = Splice1(timestamps, index)
          /\ localStorage' = SaveProjectToLocal(localStorage, currentVideoFileInfo,
                                                syncOffset, timestamps')
  /\ UNCHANGED currentVideoFileInfo
  /\ UNCHANGED <<csvVars, syncVars, sliderValue, playVars, videoVars, speedValue>>
  /\ NoRender
  /\ autoRun' = FALSE
  /\ UNCHANGED <<trackVars, enableVars, variantVars, btVars>>
  /\ HistoryInput("deleteTimestamp", [NoInput EXCEPT !.index = Some(index)])

(* part_003 158-169: the two exported entry points of the chart updater,      *)
(* called by the host page with a data time or with a video time              *)
RefTimes == {0, SamplePeriod, windowSize \div 2, 3 * UnitsPerSecond}
CallUpdateCharts(timeSeconds, forVideo) ==
  /\ IF forVideo THEN UpdateChartsForVideoTime(timeSeconds)
                 ELSE UpdateChartsForDataTime(timeSeconds)
  /\ UNCHANGED <<csvVars, syncVars, sliderValue, playVars, videoVars, projVars, speedValue,
                 autoRun>>
  /\ UNCHANGED <<trackVars, enableVars, variantVars, btVars>>
  /\ History("updateCharts")

----------------------------------------------------------------------------
(* Persisted projects (state.js 104-131, exportImport.js 98-269). A project    *)
(* file is a record of optional fields, as JSON.parse returns it.              *)
StoredProject ==
  [syncOffset |-> Some(SamplePeriod), timestamps |-> Some(<<[time |-> windowSize \div 2]>>)]
EmptyProject == [syncOffset |-> None, timestamps |-> None]
ProjectFiles == {StoredProject, EmptyProject}
ZipVideos == {None} \cup {Some([file |-> f, duration |-> d]) : f \in Files, d \in VideoDurations}
ZipCsvs == {None, Some(<<>>), Some(CleanText(1)), Some(CleanText(MaxRows))}

(* mutant of ProjectOffset: the stored offset is not read *)
ProjectOffsetIgnored(project) == 0

(* exportImport.js 127, 246: projectData.syncOffset || 0 *)
ProjectOffset(project) == IF IsNull(project.syncOffset) THEN 0 ELSE Val(project.syncOffset)

(* exportImport.js 128, 247: projectData.timestamps || [] *)
ProjectTimestamps(project) == IF IsNull(project.timestamps) THEN <<>> ELSE Val(project.timestamps)

(* state.js 83-102 IMU.saveProjectToLocal called on its own *)
SaveProject ==
  /\ localStorage' = SaveProjectToLocal(localStorage, currentVideoFileInfo, syncOffset,
                                        timestamps)
  /\ UNCHANGED <<timestamps, currentVideoFileInfo>>
  /\ UNCHANGED <<csvVars, syncVars, sliderValue, playVars, videoVars, speedValue>>
  /\ NoRender
  /\ autoRun' = FALSE
  /\ UNCHANGED <<trackVars, enableVars, variantVars, btVars>>
  /\ History("saveProjectToLocal")

(* state.js 104-131 IMU.loadProjectFromLocal *)
LoadProjectFromLocal ==
  /\ IF IsNull(currentVideoFileInfo) \/ IsNull(localStorage[getProjectStorageKey(Val(currentVideoFileInfo))])
     THEN UNCHANGED <<syncOffset, timestamps>>
     ELSE /\ syncOffset' = Val(localStorage[getProjectStorageKey(Val(currentVideoFileInfo))]).syncOffset
          /\ timestamps' = Val(localStorage[getProjectStorageKey(Val(currentVideoFileInfo))]).timestamps
  /\ UNCHANGED <<currentVideoFileInfo, localStorage>>
  /\ UNCHANGED <<csvVars, videoMarkedTime, dataMarkedTime, setSyncBtnDisabled, sliderValue,
                 playVars, videoVars, speedValue>>
  /\ NoRender
  /\ autoRun' = FALSE
  /\ UNCHANGED <<trackVars, enableVars, variantVars, btVars>>
  /\ History("loadProjectFromLocal")

(* exportImport.js 240-265 importProject, JSON file *)
ImportJson(project) ==
  /\ syncOffset' = ProjectOffset(project)
  /\ timestamps' = ProjectTimestamps(project)
  /\ localStorage' = SaveProjectToLocal(localStorage, currentVideoFileInfo,
                                        syncOffset', timestamps')
  /\ UNCHANGED currentVideoFileInfo
  /\ UNCHANGED <<csvVars, videoMarkedTime, dataMarkedTime, setSyncBtnDisabled, sliderValue,
                 playVars, videoVars, speedValue>>
  /\ NoRender
  /\ autoRun' = FALSE
  /\ UNCHANGED <<trackVars, enableVars, variantVars, btVars>>
  /\ HistoryInput("importJson", [NoInput EXCEPT !.syncOffset = project.syncOffset,
                                                !.timestamps = project.timestamps])

(* exportImport.js 125, 244: JSON.parse throws on the file, the handler reports it *)
ImportUnparseable ==
  /\ UNCHANGED <<csvVars, syncVars, sliderValue, playVars, videoVars, projVars, speedValue>>
  /\ NoRender
  /\ autoRun' = FALSE
  /\ UNCHANGED <<trackVars, enableVars, variantVars, btVars>>
  /\ History("importUnparseable")

(* exportImport.js 110-238 importProject, ZIP archive: project.json, then the  *)
(* video entry if there is one, then the CSV entry if there is one, then save  *)
ImportZip(project, zipVideo, zipCsv) ==
  LET lines == IF IsNull(zipCsv) THEN <<>> ELSE NonBlankLines(Val(zipCsv))
      loads == ~IsNull(zipCsv) /\ Len(lines) > 0
      aborts == ~IsNull(zipCsv) /\ Len(lines) = 0
      rows == ParseRows(lines)
      times == TimeAxis(rows)
      totalTime == TotalTime(times)
  IN  /\ syncOffset' = ProjectOffset(project)
      /\ timestamps' = ProjectTimestamps(project)
      /\ IF IsNull(zipVideo)
         THEN UNCHANGED <<currentVideoFileInfo, videoVars>>
         ELSE /\ currentVideoFileInfo' = Some(Val(zipVideo).file)
              /\ uploadedVideoReady' = FALSE
              /\ pendingVideo' = Some(Val(zipVideo).duration)
              /\ videoCurrentTime' = 0
              /\ videoDuration' = 0
              /\ videoPaused' = TRUE
              /\ UNCHANGED <<currentVideoStep, totalVideoSteps>>
      /\ IF loads
         THEN /\ csvData' = Some(rows)
              /\ csvTimesSeconds' = times
              /\ sliderMax' = ToFixed3(totalTime)
              /\ sliderValue' = 0
              /\ imuCharts' = TRUE
              /\ chartMin' = 0
              /\ chartMax' = Max(windowSize, totalTime)
              /\ markerPos' = markerPos
              /\ dataSliderListeners' = SetupDataTimelineSlider(dataSliderListeners)
              /\ staleTicks' = staleTicks + pendingTicks
              /\ pendingTicks' = 0
         ELSE UNCHANGED <<csvVars, chartVars, sliderValue, pendingTicks, staleTicks>>
      (* line 190 returns before the save of line 233 *)
      /\ localStorage' = IF aborts THEN localStorage
                         ELSE SaveProjectToLocal(localStorage, currentVideoFileInfo',
                                                 syncOffset', timestamps')
      /\ UNCHANGED <<videoMarkedTime, dataMarkedTime, setSyncBtnDisabled, imuPlaying,
                     lastFrameTs, speedValue>>
      /\ rendered' = FALSE
      /\ autoRun' = FALSE
      /\ UNCHANGED <<trackVars, enableVars, variantVars, btVars>>
      /\ HistoryInput(IF aborts THEN "importZipEmptyCsv" ELSE "importZip",
                      [text |-> IF IsNull(zipCsv) THEN <<>> ELSE Val(zipCsv),
                       syncOffset |-> project.syncOffset,
                       timestamps |-> project.timestamps,
                       video |-> zipVideo,
                       index |-> None])

----------------------------------------------------------------------------
(* Pose tracking loop and mode switch (Combined IMU Video/script.js). Both    *)
(* detectors are loaded. A loop is a chain of renderFrame executions, each    *)
(* requesting the next; at any moment it is either a queued animation-frame   *)
(* callback or an execution suspended at await detector.estimatePoses.        *)

Modes == {"live", "upload"}

(* the variables stopTracking writes, as one record *)
TrackState ==
  [isRunning |-> isRunning, animationIdQueued |-> animationIdQueued,
   scheduledFrames |-> scheduledFrames, videoPaused |-> videoPaused]

SetTrackState(t) ==
  /\ isRunning' = t.isRunning
  /\ animationIdQueued' = t.animationIdQueued
  /\ scheduledFrames' = t.scheduledFrames
  /\ videoPaused' = t.videoPaused

(* mutant of stopTracking: the running flag is not cleared *)
stopTrackingStaysRunning(t, mode) ==
  IF ~t.isRunning THEN t
  ELSE [isRunning |-> TRUE,
        animationIdQueued |-> FALSE,
        scheduledFrames |-> IF t.animationIdQueued THEN t.scheduledFrames - 1
                            ELSE t.scheduledFrames,
        videoPaused |-> IF mode = "upload" THEN TRUE ELSE t.videoPaused]

(* script.js 739-753 stopTracking, in mode `mode` *)
stopTracking(t, mode) ==
  IF ~t.isRunning THEN t
  ELSE [isRunning |-> FALSE,
        animationIdQueued |-> FALSE,
        scheduledFrames |-> IF t.animationIdQueued THEN t.scheduledFrames - 1
                            ELSE t.scheduledFrames,
        videoPaused |-> IF mode = "upload" THEN TRUE ELSE t.videoPaused]

(* animationId = requestAnimationFrame(renderFrame) *)
RequestFrame(t) ==
  [t EXCEPT !.scheduledFrames = t.scheduledFrames + 1, !.animationIdQueued = TRUE]

(* the browser takes the oldest queued callback; the one animationId names is *)
(* the newest                                                                 *)
TakeFrame(t) ==
  [t EXCEPT !.scheduledFrames = t.scheduledFrames - 1,
            !.animationIdQueued = t.animationIdQueued /\ t.scheduledFrames > 1]

(* script.js 726-735: the tail of handleStart *)
StartLoop(t) == RequestFrame([t EXCEPT !.isRunning = TRUE])

Loops == scheduledFrames + awaitingPose + startsAwaiting.live + startsAwaiting.upload

(* script.js 679-736 handleStart up to its first await, or to its end when it  *)
(* does not await. The Start button is disabled while isRunning.               *)
HandleStart ==
  /\ Loops < MaxLoops
  /\ IF isRunning \/ (currentMode = "upload" /\ ~uploadedVideoReady)
     THEN UNCHANGED <<trackVars, videoPaused>>
     ELSE IF currentMode = "live" /\ ~cameraStream
     THEN /\ startsAwaiting' = [startsAwaiting EXCEPT !.live = @ + 1]
          /\ UNCHANGED <<currentMode, isRunning, animationIdQueued, scheduledFrames,
                         awaitingPose, cameraStream, videoPaused>>
     ELSE IF currentMode = "upload" /\ (videoPaused \/ videoCurrentTime = 0)
     THEN /\ startsAwaiting' = [startsAwaiting EXCEPT !.upload = @ + 1]
          /\ UNCHANGED <<currentMode, isRunning, animationIdQueued, scheduledFrames,
                         awaitingPose, cameraStream, videoPaused>>
     ELSE /\ SetTrackState(StartLoop(TrackState))
          /\ UNCHANGED <<currentMode, awaitingPose, startsAwaiting, cameraStream>>
  /\ UNCHANGED <<videoCurrentTime, videoDuration, uploadedVideoReady, currentVideoStep,
                 totalVideoSteps, pendingVideo>>
  /\ UNCHANGED <<csvVars, syncVars, sliderValue, playVars, projVars, speedValue, enableVars, variantVars, btVars>>
  /\ NoRender
  /\ autoRun' = FALSE
  /\ History("handleStart")

(* script.js 692-735 handleStart resumed in the branch it was suspended in:   *)
(* setupCamera resolved (ok) or threw, video.play() resolved (ok) or rejected *)
StartResume(branch, ok) ==
  /\ startsAwaiting[branch] > 0
  /\ startsAwaiting' = [startsAwaiting EXCEPT ![branch] = @ - 1]
  /\ IF branch = "live"
     THEN IF ok
          THEN /\ cameraStream' = TRUE
               /\ SetTrackState(StartLoop(TrackState))
          ELSE UNCHANGED <<cameraStream, isRunning, animationIdQueued, scheduledFrames,
                           videoPaused>>
     ELSE /\ SetTrackState(StartLoop([TrackState EXCEPT
                               !.videoPaused = IF ok THEN FALSE ELSE videoPaused]))
          /\ UNCHANGED cameraStream
  /\ UNCHANGED <<currentMode, awaitingPose>>
  /\ UNCHANGED <<videoCurrentTime, videoDuration, uploadedVideoReady, currentVideoStep,
                 totalVideoSteps, pendingVideo>>
  /\ UNCHANGED <<csvVars, syncVars, sliderValue, playVars, projVars, speedValue, enableVars, variantVars, btVars,
                 autoRun>>
  /\ NoRender
  /\ History("startResume")

(* script.js 739-753 stopTracking as the Stop button's click handler; the     *)
(* button is disabled while not isRunning                                     *)
StopTracking ==
  /\ isRunning
  /\ SetTrackState(stopTracking(TrackState, currentMode))
  /\ UNCHANGED <<currentMode, awaitingPose, startsAwaiting, cameraStream>>
  /\ UNCHANGED <<videoCurrentTime, videoDuration, uploadedVideoReady, currentVideoStep,
                 totalVideoSteps, pendingVideo>>
  /\ UNCHANGED <<csvVars, syncVars, sliderValue, playVars, projVars, speedValue, enableVars, variantVars, btVars>>
  /\ NoRender
  /\ autoRun' = FALSE
  /\ History("stopTracking")

(* script.js 609-671: renderFrame from the pose on; pose: a pose is at hand;  *)
(* due: IMU_UPDATE_THROTTLE_MS has passed since the last chart update         *)
FrameTail(t, pose, due) ==
  /\ SetTrackState(RequestFrame(t))
  /\ IF pose /\ due /\ currentMode = "upload" /\ ~IsNull(csvData) /\ Len(csvTimesSeconds) > 0
     THEN UpdateChartsForVideoTime(videoCurrentTime)
     ELSE NoRender
  /\ History(IF pose THEN "frameDraw" ELSE "frameNoPose")

(* script.js 556-607 renderFrame as an animation-frame callback, up to its    *)
(* await or, when the pose of an earlier frame is reused, to its end.         *)
(* ready: video.readyState >= 2; ended: video.ended; estimate: live mode, or  *)
(* frameIndex % UPLOAD_FRAME_SKIP === 0 || !lastPose                          *)
FrameBegin(ready, ended, estimate, due) ==
  /\ scheduledFrames > 0
  /\ currentMode = "live" => estimate
  /\ LET t == TakeFrame(TrackState)
     IN  IF ~isRunning
         THEN /\ SetTrackState(t)
              /\ UNCHANGED awaitingPose
              /\ NoRender
              /\ History("frameNotRunning")
         ELSE IF ~ready
         THEN /\ SetTrackState(RequestFrame(t))
              /\ UNCHANGED awaitingPose
              /\ NoRender
              /\ History("frameNotReady")
         ELSE IF currentMode = "upload" /\ ended
         THEN /\ SetTrackState(stopTracking(t, currentMode))
              /\ UNCHANGED awaitingPose
              /\ NoRender
              /\ History("frameEnded")
         ELSE IF estimate
         THEN /\ SetTrackState(t)
              /\ awaitingPose' = awaitingPose + 1
              /\ NoRender
              /\ History("frameEstimate")
         ELSE /\ FrameTail(t, TRUE, due)
              /\ UNCHANGED awaitingPose
  /\ UNCHANGED <<currentMode, startsAwaiting, cameraStream>>
  /\ UNCHANGED <<videoCurrentTime, videoDuration, uploadedVideoReady, currentVideoStep,
                 totalVideoSteps, pendingVideo>>
  /\ UNCHANGED <<csvVars, syncVars, sliderValue, playVars, projVars, speedValue, enableVars, variantVars, btVars,
                 autoRun>>

(* script.js 596-671 renderFrame resumed after await detector.estimatePoses;  *)
(* pose: poses[0] exists                                                      *)
FrameResume(pose, due) ==
  /\ awaitingPose > 0
  /\ awaitingPose' = awaitingPose - 1
  /\ FrameTail(TrackState, pose, due)
  /\ UNCHANGED <<currentMode, startsAwaiting, cameraStream>>
  /\ UNCHANGED <<videoCurrentTime, videoDuration, uploadedVideoReady, currentVideoStep,
                 totalVideoSteps, pendingVideo>>
  /\ UNCHANGED <<csvVars, syncVars, sliderValue, playVars, projVars, speedValue, enableVars, variantVars, btVars,
                 autoRun>>

(* script.js 759-805 selectMode: the mode buttons' click handler *)
SelectMode(mode) ==
  /\ IF mode = currentMode
     THEN /\ UNCHANGED <<trackVars, videoVars>>
          /\ History("selectModeSame")
     ELSE /\ SetTrackState([stopTracking(TrackState, currentMode) EXCEPT !.videoPaused = TRUE])
          /\ currentMode' = mode
          /\ cameraStream' = (IF mode = "upload" THEN FALSE ELSE cameraStream)
          /\ uploadedVideoReady' = FALSE
          /\ videoCurrentTime' = 0
          /\ videoDuration' = 0
          /\ pendingVideo' = None
          /\ UNCHANGED <<awaitingPose, startsAwaiting, currentVideoStep, totalVideoSteps>>
          /\ History("selectMode")
  /\ UNCHANGED <<csvVars, syncVars, sliderValue, playVars, projVars, speedValue, enableVars, variantVars, btVars>>
  /\ NoRender
  /\ autoRun' = FALSE

----------------------------------------------------------------------------
(* The render loops of the other pages. handleStart, stopTracking and         *)
(* selectMode are the same code in the three scripts; renderFrame differs.    *)
PoseVariants == {"combined", "videoWeb", "progress1"}

(* movenet.js 189-277: renderFrame from the pose on, with the video timeline  *)
(* update (236-257, the slider not being dragged); op: the name the frame is  *)
(* recorded under                                                             *)
MovenetFrameTail(t, pose, due, op) ==
  /\ SetTrackState(RequestFrame(t))
  /\ currentVideoStep' = (IF pose /\ currentMode = "upload"
                          THEN StepIndex(videoCurrentTime, totalVideoSteps)
                          ELSE currentVideoStep)
  /\ IF pose /\ due /\ currentMode = "upload" /\ ~IsNull(csvData) /\ Len(csvTimesSeconds) > 0
     THEN UpdateChartsForVideoTime(videoCurrentTime)
     ELSE NoRender
  /\ History(op)

(* movenet.js 136-187 renderFrame as an animation-frame callback, up to its   *)
(* await or to its end: a video that has ended in upload mode is paused and   *)
(* the frame goes on (153-157)                                                *)
MovenetFrameBegin(ready, ended, estimate, due) ==
  /\ scheduledFrames > 0
  /\ currentMode = "live" => estimate
  /\ LET t == TakeFrame(TrackState)
         found == currentMode = "upload" /\ ended
         t1 == IF found THEN [t EXCEPT !.videoPaused = TRUE] ELSE t
     IN  IF ~isRunning
         THEN /\ SetTrackState(t)
              /\ UNCHANGED <<awaitingPose, currentVideoStep>>
              /\ NoRender
              /\ History("frameNotRunning")
         ELSE IF ~ready
         THEN /\ SetTrackState(RequestFrame(t))
              /\ UNCHANGED <<awaitingPose, currentVideoStep>>
              /\ NoRender
              /\ History("frameNotReady")
         ELSE IF estimate
         THEN /\ SetTrackState(t1)
              /\ awaitingPose' = awaitingPose + 1
              /\ UNCHANGED currentVideoStep
              /\ NoRender
              /\ History(IF found THEN "frameEndedContinues" ELSE "frameEstimate")
         ELSE /\ MovenetFrameTail(t1, TRUE, due,
                                  IF found THEN "frameEndedContinues" ELSE "frameDraw")
              /\ UNCHANGED awaitingPose
  /\ UNCHANGED <<currentMode, startsAwaiting, cameraStream>>
  /\ UNCHANGED <<videoCurrentTime, videoDuration, uploadedVideoReady, totalVideoSteps,
                 pendingVideo>>
  /\ UNCHANGED <<csvVars, syncVars, sliderValue, playVars, projVars, speedValue, enableVars,
                 variantVars, btVars, autoRun>>

(* movenet.js 176-277 renderFrame resumed after await detector.estimatePoses *)
MovenetFrameResume(pose, due) ==
  /\ awaitingPose > 0
  /\ awaitingPose' = awaitingPose - 1
  /\ MovenetFrameTail(TrackState, pose, due, IF pose THEN "frameDraw" ELSE "frameNoPose")
  /\ UNCHANGED <<currentMode, startsAwaiting, cameraStream>>
  /\ UNCHANGED <<videoCurrentTime, videoDuration, uploadedVideoReady, totalVideoSteps,
                 pendingVideo>>
  /\ UNCHANGED <<csvVars, syncVars, sliderValue, playVars, projVars, speedValue, enableVars,
                 variantVars, btVars, autoRun>>

(* One of the three pages is opened: its script has loaded and nothing has    *)
(* been done yet                                                              *)
OpenPage(v) ==
  /\ lastOp = "init"
  /\ loopVariant' = v
  /\ UNCHANGED <<combined, appliedMarks, btVars>>
  /\ UNCHANGED <<csvVars, syncVars, sliderValue, playVars, videoVars, projVars, speedValue,
                 trackVars, enableVars, autoRun>>
  /\ NoRender
  /\ History("openPage")

(* Video - Web/script.js 164-247 renderFrame: the control flow of the Combined *)
(* script's renderFrame, without the IMU charts                                *)
VideoWebFrameBegin(ready, ended, estimate) == FrameBegin(ready, ended, estimate, FALSE)
VideoWebFrameResume(pose) == FrameResume(pose, FALSE)

----------------------------------------------------------------------------
(* The earlier variant, Combined IMU Video/script.js, run beside this page on *)
(* the same files and the same clicks. Its state is the record `combined`.    *)

(* script.js 104-117, 308-309: the state after the script has loaded *)
CombinedInit ==
  [csvData |-> None, csvTimesSeconds |-> <<>>, imuCharts |-> FALSE,
   dataSliderListener |-> FALSE, syncOffset |-> 0,
   videoMarkedTime |-> None, dataMarkedTime |-> None,
   chartMin |-> 0, chartMax |-> 0, markerPos |-> None, rendered |-> FALSE]

(* script.js 352: adjustedTime = videoTime + syncOffset *)
CombinedAdjustedTime(c, videoTime) == videoTime + c.syncOffset

(* script.js 348-395 updateChartsForVideoTime *)
CombinedUpdateChartsForVideoTime(c, videoTime) ==
  IF IsNull(c.csvData) \/ Len(c.csvTimesSeconds) = 0 \/ ~c.imuCharts
  THEN [c EXCEPT !.rendered = FALSE]
  ELSE LET adjustedTime == CombinedAdjustedTime(c, videoTime)
       IN  [c EXCEPT !.chartMin = WindowStart(adjustedTime),
                     !.chartMax = WindowEnd(adjustedTime),
                     !.markerPos = Some(MarkerPos(adjustedTime)),
                     !.rendered = TRUE]

(* script.js 410-425 dataSliderListener *)
CombinedDataSliderListener(c, time) ==
  IF ~c.dataSliderListener \/ Len(c.csvTimesSeconds) = 0
  THEN [c EXCEPT !.rendered = FALSE]
  ELSE LET marked == SnapTime(c.csvTimesSeconds, time)
       IN  CombinedUpdateChartsForVideoTime([c EXCEPT !.dataMarkedTime = Some(marked)],
                                            marked - c.syncOffset)

(* script.js 443-491 reader.onload; initImuCharts, updateImuChartsFull (318-345) *)
(* and setupDataTimelineSlider (402-428)                                        *)
CombinedReaderOnLoad(c, text) ==
  LET lines == NonBlankLines(text)
      rows == ParseRows(lines)
      times == [i \in 1..Len(rows) |-> ((i - 1) * UnitsPerSecond) \div SAMPLE_RATE_HZ]
      maxTime == IF Len(times) > 0 THEN times[Len(times)] ELSE 0
  IN  IF Len(lines) = 0 THEN [c EXCEPT !.rendered = FALSE]
      ELSE [c EXCEPT !.csvData = Some(rows),
                     !.csvTimesSeconds = times,
                     !.imuCharts = TRUE,
                     !.chartMin = 0,
                     !.chartMax = Max(windowSize, maxTime),
                     !.dataSliderListener = TRUE,
                     !.rendered = FALSE]

(* script.js 500-507 markVideoBtn click *)
CombinedMarkVideo(c, videoTime) ==
  [c EXCEPT !.videoMarkedTime = Some(videoTime), !.rendered = FALSE]

(* script.js 511-525 markDataBtn click *)
CombinedMarkData(c) ==
  IF IsNull(c.csvData) \/ Len(c.csvTimesSeconds) = 0 THEN [c EXCEPT !.rendered = FALSE]
  ELSE [c EXCEPT !.dataMarkedTime = (IF IsNull(c.dataMarkedTime) THEN Some(0)
                                     ELSE c.dataMarkedTime),
                 !.rendered = FALSE]

(* mutant of CombinedApplySync: the offset with the sign of the Progress 3 variant *)
CombinedApplySyncSwapped(c) ==
  IF IsNull(c.videoMarkedTime) \/ IsNull(c.dataMarkedTime) THEN [c EXCEPT !.rendered = FALSE]
  ELSE [c EXCEPT !.syncOffset = Val(c.videoMarkedTime) - Val(c.dataMarkedTime),
                 !.videoMarkedTime = None,
                 !.dataMarkedTime = None,
                 !.rendered = FALSE]

(* script.js 529-541 setSyncBtn click *)
CombinedApplySync(c) ==
  IF IsNull(c.videoMarkedTime) \/ IsNull(c.dataMarkedTime) THEN [c EXCEPT !.rendered = FALSE]
  ELSE [c EXCEPT !.syncOffset = Val(c.dataMarkedTime) - Val(c.videoMarkedTime),
                 !.videoMarkedTime = None,
                 !.dataMarkedTime = None,
                 !.rendered = FALSE]

(* script.js 655-668: the charts follow the video, in upload mode with the IMU *)
(* panel shown, when the throttle interval has passed                          *)
CombinedFrameFollow(c, mode, panelShown, due, videoTime) ==
  IF mode = "upload" /\ ~IsNull(c.csvData) /\ Len(c.csvTimesSeconds) > 0 /\ panelShown /\ due
  THEN CombinedUpdateChartsForVideoTime(c, videoTime)
  ELSE [c EXCEPT !.rendered = FALSE]

(* The same file, drag or click given to both pages *)
VariantsLoadCsv(text) ==
  /\ ReaderOnLoad(text)
  /\ UNCHANGED enableVars
  /\ combined' = CombinedReaderOnLoad(combined, text)
  /\ UNCHANGED <<appliedMarks, loopVariant, btVars>>

VariantsDataScrub(t) ==
  /\ dataSliderInput(t)
  /\ combined' = CombinedDataSliderListener(combined, t)
  /\ UNCHANGED <<appliedMarks, loopVariant, btVars>>

VariantsMarkVideo ==
  /\ markVideoBtnClick
  /\ combined' = CombinedMarkVideo(combined, videoCurrentTime)
  /\ UNCHANGED <<appliedMarks, loopVariant, btVars>>

VariantsMarkData ==
  /\ markDataBtnClick
  /\ combined' = CombinedMarkData(combined)
  /\ UNCHANGED <<appliedMarks, loopVariant, btVars>>

VariantsApplySync ==
  /\ setSyncBtnClick
  /\ combined' = CombinedApplySync(combined)
  /\ appliedMarks' = (IF IsNull(videoMarkedTime) \/ IsNull(dataMarkedTime) THEN appliedMarks
                      ELSE Some([v |-> Val(videoMarkedTime), d |-> Val(dataMarkedTime)]))
  /\ UNCHANGED <<loopVariant, btVars>>

(* a frame of the render loop of both pages, the Combined page in upload mode *)
VariantsRenderFrame(due) ==
  /\ renderFrameFollow(due)
  /\ combined' = CombinedFrameFollow(combined, "upload", TRUE, due, videoCurrentTime)
  /\ UNCHANGED <<appliedMarks, loopVariant, btVars>>

----------------------------------------------------------------------------
(* Interface_WebBluetooth/WebBluetooth.js: the Bluetooth terminal page.       *)
(* commandChar is modelled by whether it is defined; a promise the page waits *)
(* for settles in a later step, resolved or rejected as the device decides.   *)

(* WebBluetooth.js 40-105: the awaits of scanForDevices, in order *)
ScanStages == <<"requestDevice", "connect", "getPrimaryService", "commandChar", "responseChar">>
ScanStageSet == {ScanStages[i] : i \in 1..Len(ScanStages)}
ScanCount ==
  scansAwaiting["requestDevice"] + scansAwaiting["connect"] + scansAwaiting["getPrimaryService"]
    + scansAwaiting["commandChar"] + scansAwaiting["responseChar"]

(* the other pages' state, which this page never touches *)
BluetoothLeavesPagesAlone ==
  /\ UNCHANGED <<csvVars, syncVars, sliderValue, playVars, videoVars, projVars, speedValue,
                 trackVars, enableVars, variantVars, autoRun>>
  /\ NoRender

(* WebBluetooth.js 126-158 updateState: the flag btConnected and the three    *)
(* displays (uiState); btReady and commandChar are not touched                *)
updateState(currentState) ==
  /\ uiState' = currentState
  /\ btConnected' = (currentState = 2)

(* the scan button (display inline in state 0 only) is clicked: scanForDevices *)
(* runs up to its first await, 40-85                                           *)
ScanClick ==
  /\ uiState = 0
  /\ ScanCount < MaxScans
  /\ scansAwaiting' = [scansAwaiting EXCEPT !["requestDevice"] = @ + 1]
  /\ UNCHANGED <<btConnected, btReady, commandChar, uiState, linkUp, writesInFlight>>
  /\ BluetoothLeavesPagesAlone
  /\ History("scanClick")

(* WebBluetooth.js 38-119 scanForDevices resumes after the await of `stage`:  *)
(* rejected, the catch of 115-118 alerts and the function ends; resolved, it  *)
(* runs to the next await or to its end                                       *)
ScanResume(i, resolved) ==
  LET stage == ScanStages[i] IN
  /\ scansAwaiting[stage] > 0
  /\ stage \in {"getPrimaryService", "commandChar", "responseChar"} /\ resolved => linkUp
  /\ scansAwaiting' =
       IF resolved /\ i < Len(ScanStages)
       THEN [scansAwaiting EXCEPT ![stage] = @ - 1, ![ScanStages[i + 1]] = @ + 1]
       ELSE [scansAwaiting EXCEPT ![stage] = @ - 1]
  /\ IF ~resolved
     THEN UNCHANGED <<btConnected, uiState, commandChar, linkUp>>
     ELSE CASE stage = "requestDevice" ->          \* 88
                 updateState(1) /\ UNCHANGED <<commandChar, linkUp>>
            [] stage = "connect" ->                \* 91-98: the server is connected
                 linkUp' = TRUE /\ UNCHANGED <<btConnected, uiState, commandChar>>
            [] stage = "getPrimaryService" ->      \* 101
                 UNCHANGED <<btConnected, uiState, commandChar, linkUp>>
            [] stage = "commandChar" ->            \* 104
                 commandChar' = TRUE /\ UNCHANGED <<btConnected, uiState, linkUp>>
            [] stage = "responseChar" ->           \* 105-113
                 updateState(2) /\ UNCHANGED <<commandChar, linkUp>>
  /\ UNCHANGED <<btReady, writesInFlight>>
  /\ BluetoothLeavesPagesAlone
  /\ History(IF resolved THEN "scanResume" ELSE "scanFailed")

(* WebBluetooth.js 94-98: the device's GATT server disconnects and the        *)
(* gattserverdisconnected listener runs updateState(0)                        *)
GattServerDisconnected ==
  /\ linkUp
  /\ linkUp' = FALSE
  /\ updateState(0)
  /\ UNCHANGED <<btReady, commandChar, scansAwaiting, writesInFlight>>
  /\ BluetoothLeavesPagesAlone
  /\ History("gattserverdisconnected")

(* mutant of sendCommand: the ready flag is not cleared before the write *)
sendCommandKeepsReady ==
  /\ IF btConnected /\ btReady /\ commandChar
     THEN writesInFlight' = writesInFlight + 1 /\ History("sendCommand")
     ELSE UNCHANGED writesInFlight /\ History("sendCommandSkipped")
  /\ UNCHANGED <<btConnected, btReady, commandChar, uiState, linkUp, scansAwaiting>>
  /\ BluetoothLeavesPagesAlone

(* WebBluetooth.js 162-187 sendCommand: under the guard of 166 the flag is    *)
(* cleared (174) and the write is started (176); otherwise nothing happens    *)
sendCommand ==
  /\ IF btConnected /\ btReady /\ commandChar
     THEN /\ btReady' = FALSE
          /\ writesInFlight' = writesInFlight + 1
          /\ History("sendCommand")
     ELSE /\ UNCHANGED <<btReady, writesInFlight>>
          /\ History("sendCommandSkipped")
  /\ UNCHANGED <<btConnected, commandChar, uiState, linkUp, scansAwaiting>>
  /\ BluetoothLeavesPagesAlone

(* WebBluetooth.js 177: the write resolved, which takes a connected server *)
WriteResolved ==
  /\ writesInFlight > 0
  /\ linkUp
  /\ writesInFlight' = writesInFlight - 1
  /\ btReady' = TRUE
  /\ UNCHANGED <<btConnected, commandChar, uiState, linkUp, scansAwaiting>>
  /\ BluetoothLeavesPagesAlone
  /\ History("writeResolved")

(* WebBluetooth.js 178: the write rejected; the handler sets the flag and     *)
(* rethrows into a promise nobody handles                                     *)
WriteRejected ==
  /\ writesInFlight > 0
  /\ writesInFlight' = writesInFlight - 1
  /\ btReady' = TRUE
  /\ UNCHANGED <<btConnected, commandChar, uiState, linkUp, scansAwaiting>>
  /\ BluetoothLeavesPagesAlone
  /\ History("writeRejected")

----------------------------------------------------------------------------
(* state.js 8-45, playback.js 32-33: the state after the scripts have loaded *)
Init ==
  /\ csvData = None
  /\ csvTimesSeconds = <<>>
  /\ syncOffset = 0
  /\ videoMarkedTime = None
  /\ dataMarkedTime = None
  /\ setSyncBtnDisabled = TRUE
  /\ dataSliderListeners = 0
  /\ imuCharts = FALSE
  /\ chartMin = 0
  /\ chartMax = 0
  /\ markerPos = None
  /\ sliderValue = 0
  /\ sliderMax = 0
  /\ imuPlaying = FALSE
  /\ lastFrameTs = None
  /\ pendingTicks = 0
  /\ staleTicks = 0
  /\ timestamps = <<>>
  /\ currentVideoFileInfo = None
  /\ localStorage = [k \in StorageKeys |-> None]
  /\ videoCurrentTime = 0
  /\ videoDuration = 0
  /\ uploadedVideoReady = FALSE
  /\ currentVideoStep = 0
  /\ totalVideoSteps = 0
  /\ pendingVideo = None
  /\ speedValue = 1
  /\ videoPaused = TRUE
  /\ currentMode = "live"
  /\ isRunning = FALSE
  /\ animationIdQueued = FALSE
  /\ scheduledFrames = 0
  /\ awaitingPose = 0
  /\ startsAwaiting = [live |-> 0, upload |-> 0]
  /\ cameraStream = FALSE
  /\ controls = "markup"
  /\ pendingRead = None
  /\ refreshTimers = 0
  /\ pollTries = 0
  /\ pollActive = TRUE
  /\ combined = CombinedInit
  /\ appliedMarks = None
  /\ loopVariant = "combined"
  /\ btConnected = FALSE
  /\ btReady = TRUE
  /\ commandChar = FALSE
  /\ uiState = 0
  /\ linkUp = FALSE
  /\ scansAwaiting = [stage \in ScanStageSet |-> 0]
  /\ writesInFlight = 0
  /\ lastOp = "init"
  /\ rendered = FALSE
  /\ lastInput = NoInput
  /\ autoRun = FALSE

(* The synchronisation core: dataset load, both scrub controls, marks, apply *)
Next ==
  \/ \E text \in CsvTexts : LoadCsv(text)
  \/ \E text \in CsvTexts : LoadCsvEmpty(text)
  \/ \E t \in ScrubTimes \cup {sliderMax} : DataScrub(t)
  \/ MarkVideo
  \/ MarkData
  \/ ApplySync
  \/ \E d \in VideoDurations : HandleFileChange(d)
  \/ OnLoadedMetadata
  \/ \E t \in VideoTimes : VideoScrub(t)

Spec == Init /\ [][Next]_vars

(* The charts following the video through the offset *)
NextFollow ==
  \/ LoadCsv(CleanText(MaxRows))
  \/ \E t \in ScrubTimes \cup {sliderMax} : DataScrub(t)
  \/ MarkVideo
  \/ MarkData
  \/ ApplySync
  \/ \E d \in VideoDurations : HandleFileChange(d)
  \/ OnLoadedMetadata
  \/ \E t \in VideoTimes : VideoScrub(t)
  \/ \E due \in BOOLEAN : RenderFrame(due)

SpecFollow == Init /\ [][NextFollow]_vars

(* Marks, apply and the persisted project *)
NextProject ==
  \/ LoadCsv(CleanText(MaxRows))
  \/ MarkVideo
  \/ MarkData
  \/ ApplySync
  \/ \E d \in VideoDurations : HandleFileChange(d)
  \/ OnLoadedMetadata
  \/ \E t \in VideoTimes : VideoScrub(t)
  \/ \E f \in Files : SetCurrentVideoFileInfo(Some(f))
  \/ SetCurrentVideoFileInfo(None)
  \/ AddTimestamp
  \/ \E i \in 0..MaxTimestamps : DeleteTimestamp(i)

SpecProject == Init /\ [][NextProject]_vars

(* The playback driver over the data timeline *)
NextPlay ==
  \/ \E text \in CsvTexts : LoadCsv(text)
  \/ \E t \in ScrubTimes \cup {sliderMax} : DataScrub(t)
  \/ \E stale \in BOOLEAN, elapsed \in FrameDts : Tick(stale, elapsed)
  \/ TogglePlay
  \/ \E dir \in {-1, 1} : Step(dir)
  \/ \E v \in SpeedValues : ChangeSpeed(v)
  \/ RefreshEnabledState

SpecPlay == Init /\ [][NextPlay]_vars

(* Both timelines side by side: every video-side and every IMU-side control *)
NextBoth ==
  \/ LoadCsv(CleanText(MaxRows))
  \/ \E t \in ScrubTimes \cup {sliderMax} : DataScrub(t)
  \/ \E stale \in BOOLEAN, elapsed \in FrameDts : Tick(stale, elapsed)
  \/ TogglePlay
  \/ \E dir \in {-1, 1} : Step(dir)
  \/ MarkVideo
  \/ \E d \in VideoDurations : HandleFileChange(d)
  \/ OnLoadedMetadata
  \/ \E t \in VideoTimes : VideoScrub(t)
  \/ AddTimestamp
  \/ \E i \in 0..MaxTimestamps : SelectTimestamp(i)

SpecBoth == Init /\ [][NextBoth]_vars

(* Dataset loads and project loads: CSV upload, project import, local storage *)
NextImport ==
  \/ \E text \in CsvTexts : LoadCsv(text)
  \/ \E text \in CsvTexts : LoadCsvEmpty(text)
  \/ \E t \in ScrubTimes \cup {sliderMax} : DataScrub(t)
  \/ \E project \in ProjectFiles, zipVideo \in ZipVideos, zipCsv \in ZipCsvs :
       ImportZip(project, zipVideo, zipCsv)
  \/ \E project \in ProjectFiles : ImportJson(project)
  \/ ImportUnparseable
  \/ LoadProjectFromLocal
  \/ \E f \in Files : SetCurrentVideoFileInfo(Some(f))
  \/ OnLoadedMetadata
  \/ \E t \in VideoTimes : VideoScrub(t)
  \/ AddTimestamp

SpecImport == Init /\ [][NextImport]_vars

(* The chart updater called in any state of the dataset *)
NextCharts ==
  \/ \E text \in CsvTexts : LoadCsv(text)
  \/ \E text \in CsvTexts : LoadCsvEmpty(text)
  \/ \E t \in ScrubTimes \cup {sliderMax} : DataScrub(t)
  \/ \E t \in RefTimes, forVideo \in BOOLEAN : CallUpdateCharts(t, forVideo)

SpecCharts == Init /\ [][NextCharts]_vars

(* Who writes the offset and the series: apply, project import and dataset   *)
(* load next to the marks, the scrubs, the driver, the render loop and the   *)
(* annotation edits                                                          *)
NextFrame ==
  \/ LoadCsv(CleanText(MaxRows))
  \/ DataScrub(SamplePeriod)
  \/ MarkVideo
  \/ MarkData
  \/ ApplySync
  \/ \E d \in VideoDurations : HandleFileChange(d)
  \/ OnLoadedMetadata
  \/ VideoScrub(windowSize \div 2)
  \/ RenderFrame(TRUE)
  \/ TogglePlay
  \/ Tick(FALSE, 208)
  \/ AddTimestamp
  \/ DeleteTimestamp(0)
  \/ ImportJson(EmptyProject)
  \/ ImportZip(EmptyProject, None, Some(CleanText(MaxRows)))

SpecFrame == Init /\ [][NextFrame]_vars

(* The pose tracking loop with the mode switch, next to a loaded dataset *)
NextTrack ==
  \/ LoadCsv(CleanText(MaxRows))
  \/ MarkData
  \/ \E d \in VideoDurations : HandleFileChange(d)
  \/ OnLoadedMetadata
  \/ \E mode \in Modes : SelectMode(mode)
  \/ HandleStart
  \/ \E branch \in Modes, ok \in BOOLEAN : StartResume(branch, ok)
  \/ StopTracking
  \/ \E ready, ended, estimate, due \in BOOLEAN : FrameBegin(ready, ended, estimate, due)
  \/ \E pose, due \in BOOLEAN : FrameResume(pose, due)

SpecTrack == Init /\ [][NextTrack]_vars

(* Back and forward on a series longer than one step, and on a short one *)
NextStep ==
  \/ \E n \in {MaxRows, LongRows} : LoadCsv(CleanText(n))
  \/ \E t \in ScrubTimes \cup {sliderMax} : DataScrub(t)
  \/ TogglePlay
  \/ \E elapsed \in FrameDts : Tick(FALSE, elapsed)
  \/ \E dir \in {-1, 1} : Step(dir)

SpecStep == Init /\ [][NextStep]_vars

(* The video timeline and its step index *)
NextVideo ==
  \/ LoadCsv(CleanText(MaxRows))
  \/ \E d \in StepDurations : HandleFileChange(d)
  \/ OnLoadedMetadata
  \/ \E t \in StepTimes : VideoScrub(t)
  \/ \E due \in BOOLEAN : RenderFrame(due)

SpecVideo == Init /\ [][NextVideo]_vars

(* The annotation list: records added at several video times, deleted by index *)
NextNotes ==
  \/ \E d \in VideoDurations : HandleFileChange(d)
  \/ OnLoadedMetadata
  \/ \E t \in VideoTimes : VideoScrub(t)
  \/ MarkVideo
  \/ \E f \in Files : SetCurrentVideoFileInfo(Some(f))
  \/ AddTimestampUpTo(MaxNotes)
  \/ \E i \in -1..MaxNotes : DeleteTimestamp(i)

SpecNotes == Init /\ [][NextNotes]_vars

(* The project store under several video files *)
NextStore ==
  \/ \E f \in AllFiles \cup {NamelessFile} : SetCurrentVideoFileInfo(Some(f))
  \/ SetCurrentVideoFileInfo(None)
  \/ \E project \in ProjectFiles : ImportJson(project)
  \/ AddTimestamp
  \/ DeleteTimestamp(0)
  \/ SaveProject
  \/ LoadProjectFromLocal

SpecStore == Init /\ [][NextStore]_vars

(* When the playback controls are enabled: CSV upload through the file input, *)
(* project import, the refresh timer and the start-up polling. The browser    *)
(* runs a queued timer, a running interval and a finished read: weak fairness *)
(* on these three; the user's actions are under no obligation.                *)
NextEnable ==
  \/ \E text \in {<<>>, CleanText(1), CleanText(MaxRows)} : CsvInputChange(text)
  \/ ReaderDone
  \/ RefreshTimer
  \/ PollTick
  \/ ImportZip(EmptyProject, None, Some(CleanText(MaxRows)))
  \/ TogglePlay
  \/ Tick(FALSE, 208)

SpecEnable ==
  /\ Init /\ [][NextEnable]_vars
  /\ WF_vars(ReaderDone) /\ WF_vars(RefreshTimer) /\ WF_vars(PollTick)

----------------------------------------------------------------------------
(* Properties *)

ScrubOps == {"dataScrub", "dataScrubPlaying"}
TickOps == {"tick", "tickStale"}
VideoSideOps == {"videoScrub", "selectTimestamp", "addTimestamp", "markVideo"}
ImuSideOps == ScrubOps \cup TickOps \cup {"togglePlay", "back", "forward"}

BothMarked == ~IsNull(videoMarkedTime) /\ ~IsNull(dataMarkedTime)
DatasetLoaded == ~IsNull(csvData) /\ Len(csvTimesSeconds) > 0

(* the reference time of the last render, read back from the window's end *)
RenderRef == chartMax - windowSize \div 2

(* the sample times as a set, and the snap the specification asks for *)
SampleTimes == {csvTimesSeconds[i] : i \in DOMAIN csvTimesSeconds}
LastSampleTime == csvTimesSeconds[Len(csvTimesSeconds)]
SmallestAtOrAfter(t) ==
  IF \E x \in SampleTimes : x >= t
  THEN CHOOSE x \in SampleTimes : x >= t /\ \A y \in SampleTimes : y >= t => x <= y
  ELSE LastSampleTime

(* C1: an apply-sync click with videoMarkedTime = a and dataMarkedTime = b,   *)
(* both non-null, sets syncOffset = a - b, clears both marks in the same step *)
(* and disables the apply control.                                            *)
C1_ApplySetsOffset ==
  [][(lastOp' = "applySync" /\ BothMarked)
       => /\ syncOffset' = Val(videoMarkedTime) - Val(dataMarkedTime)
          /\ IsNull(videoMarkedTime')
          /\ IsNull(dataMarkedTime')
          /\ setSyncBtnDisabled']_vars

C1_Witness ==
  /\ lastOp = "applySync"
  /\ syncOffset = (windowSize \div 2) - SamplePeriod
  /\ IsNull(videoMarkedTime) /\ IsNull(dataMarkedTime)
  /\ setSyncBtnDisabled

(* C2 as stated: after a sync has been applied, scrubbing the video slider to *)
(* t itself triggers a chart render whose reference time is t - syncOffset.   *)
C2_VideoScrubRenders ==
  (lastOp = "videoScrub" /\ uploadedVideoReady /\ DatasetLoaded /\ imuCharts)
    => (rendered /\ RenderRef = videoCurrentTime - syncOffset)

(* C2 amended: a chart render for the video time t (IMU.updateChartsForVideoTime, *)
(* called by the render loop with video.currentTime) uses the reference time  *)
(* t - syncOffset; the video scrub handler sets video.currentTime and the     *)
(* step index and triggers no render.                                         *)
C2_FollowUsesOffset ==
  /\ (lastOp = "renderFrame" /\ rendered)
       => /\ RenderRef = videoCurrentTime - syncOffset
          /\ chartMin = WindowStart(videoCurrentTime - syncOffset)
          /\ markerPos = Some(MarkerPos(videoCurrentTime - syncOffset))
  /\ lastOp = "videoScrub" => ~rendered

C2_Witness ==
  /\ lastOp = "renderFrame"
  /\ rendered
  /\ syncOffset = (windowSize \div 2) - SamplePeriod
  /\ videoCurrentTime = 3 * UnitsPerSecond
  /\ RenderRef = 3 * UnitsPerSecond - (windowSize \div 2) + SamplePeriod

(* C3: started with a duration D > 0 and left alone, playback ends Stopped    *)
(* with the slider at exactly D, and the slider never exceeds D.              *)
C3_PlayRunsToEnd ==
  /\ (autoRun /\ ~imuPlaying) => sliderValue = sliderMax
  /\ sliderValue <= sliderMax

(* C4: the apply control is enabled if and only if both marks are non-null,   *)
(* and it is disabled right after an apply.                                   *)
C4_ApplyEnabledIffBothMarked ==
  /\ (~setSyncBtnDisabled) <=> BothMarked
  /\ (lastOp = "applySync" /\ ~BothMarked) => setSyncBtnDisabled

(* C5: an apply-sync click while a mark is null changes nothing: syncOffset,  *)
(* both marks, the apply control and the persisted project stay as they are.  *)
C5_ApplyWithoutMarksIsNoOp ==
  [][(lastOp' = "applySync" /\ ~BothMarked)
       => UNCHANGED <<syncOffset, videoMarkedTime, dataMarkedTime,
                      setSyncBtnDisabled, localStorage, timestamps>>]_vars

C5_Witness ==
  /\ lastOp = "applySync"
  /\ ~IsNull(videoMarkedTime) /\ IsNull(dataMarkedTime)
  /\ ~IsNull(currentVideoFileInfo)
  /\ IsNull(localStorage[getProjectStorageKey(Val(currentVideoFileInfo))])

(* C6: with a non-empty time axis a data scrub to t snaps to the smallest     *)
(* sample time >= t, to the last sample time when t exceeds all of them, and  *)
(* to the first sample time when t <= 0.                                      *)
C6_ScrubSnaps ==
  (lastOp \in ScrubOps /\ Len(csvTimesSeconds) > 0)
    => /\ dataMarkedTime = Some(SmallestAtOrAfter(sliderValue))
       /\ sliderValue <= 0 => dataMarkedTime = Some(csvTimesSeconds[1])
       /\ (\A x \in SampleTimes : x < sliderValue) => dataMarkedTime = Some(LastSampleTime)

C6_Witness ==
  /\ lastOp \in ScrubOps
  /\ Len(csvTimesSeconds) = 2
  /\ sliderValue = 60
  /\ dataMarkedTime = Some(SamplePeriod)

(* C7: a data scrub renders the window around the snapped data time, whatever *)
(* syncOffset is, and leaves video.currentTime and the video step index alone. *)
C7_DataScrubRendersDataTime ==
  [][lastOp' \in ScrubOps
       => /\ videoCurrentTime' = videoCurrentTime
          /\ currentVideoStep' = currentVideoStep
          /\ (DatasetLoaded /\ imuCharts) => rendered'
          /\ rendered' => /\ RenderRef' = SmallestAtOrAfter(sliderValue')
                          /\ chartMin' = WindowStart(SmallestAtOrAfter(sliderValue'))
                          /\ markerPos' = Some(MarkerPos(SmallestAtOrAfter(sliderValue')))]_vars

C7_Witness ==
  /\ lastOp \in ScrubOps
  /\ rendered
  /\ syncOffset = (windowSize \div 2) - SamplePeriod
  /\ videoCurrentTime = 3 * UnitsPerSecond
  /\ dataMarkedTime = Some(SamplePeriod)
  /\ RenderRef = SamplePeriod

(* C8: no video-side action changes the data slider value or dataMarkedTime,  *)
(* and no IMU-side action changes video.currentTime.                          *)
C8_PlayheadsIndependent ==
  [][/\ lastOp' \in VideoSideOps
          => (sliderValue' = sliderValue /\ dataMarkedTime' = dataMarkedTime)
     /\ lastOp' \in ImuSideOps => videoCurrentTime' = videoCurrentTime]_vars

C8_Witness ==
  /\ lastOp = "selectTimestamp"
  /\ Len(timestamps) = 1
  /\ videoCurrentTime = timestamps[1].time
  /\ videoCurrentTime = (windowSize \div 2)
  /\ sliderValue = SamplePeriod
  /\ dataMarkedTime = Some(SamplePeriod)

(* C9: a scrub of the data slider while the driver is Playing leaves it       *)
(* Stopped, and no tick moves the slider until play is requested again: a     *)
(* tick that finds the driver Stopped changes nothing, and only the           *)
(* play/pause control starts it.                                              *)
C9_ScrubStopsPlayback ==
  /\ [](lastOp \in ScrubOps => ~imuPlaying)
  /\ [][(~imuPlaying /\ lastOp' \in TickOps)
          => (sliderValue' = sliderValue /\ ~imuPlaying')]_vars
  /\ [][(~imuPlaying /\ imuPlaying') => lastOp' = "togglePlay"]_vars

C9_Witness ==
  /\ lastOp = "dataScrubPlaying"
  /\ ~imuPlaying
  /\ staleTicks > 0
  /\ sliderValue = SamplePeriod

(* C10: a tick scheduled before playback was stopped or before the dataset    *)
(* was switched changes neither the data slider value nor the chart window.   *)
C10_StaleTickChangesNothing ==
  [][lastOp' = "tickStale"
       => (sliderValue' = sliderValue /\ chartMin' = chartMin /\ chartMax' = chartMax)]_vars

(* C11: play() with a slider maximum that is not positive is a silent no-op:  *)
(* the driver stays Stopped, no tick is scheduled, the slider keeps its value. *)
C11_PlayWithoutDurationIsNoOp ==
  [][(lastOp' = "togglePlay" /\ ~imuPlaying /\ ~(sliderMax > 0))
       => /\ ~imuPlaying'
          /\ pendingTicks' = pendingTicks
          /\ staleTicks' = staleTicks
          /\ lastFrameTs' = lastFrameTs
          /\ sliderValue' = sliderValue]_vars

C11_Witness ==
  /\ lastOp = "togglePlay"
  /\ DatasetLoaded
  /\ sliderMax = 0
  /\ ~imuPlaying
  /\ pendingTicks = 0 /\ staleTicks = 0

(* C12: pause() is idempotent: from any state two calls leave what one call   *)
(* leaves (Stopped, lastFrameTs null), and pause() never moves the slider.    *)
C12_PauseIdempotent ==
  /\ [](LET once == pause(PlayState)
        IN  pause(once) = once /\ ~once.imuPlaying /\ IsNull(once.lastFrameTs))
  /\ [][(lastOp' = "togglePlay" /\ imuPlaying)
          => (~imuPlaying' /\ IsNull(lastFrameTs') /\ sliderValue' = sliderValue)]_vars
  /\ [][lastOp' = "refreshEnabledState"
          => /\ sliderValue' = sliderValue
             /\ ~imuPlaying => (~imuPlaying' /\ IsNull(lastFrameTs'))
             /\ ~(sliderMax > 0) => (~imuPlaying' /\ IsNull(lastFrameTs'))]_vars

C12_Witness ==
  /\ lastOp = "refreshEnabledState"
  /\ sliderMax = 0
  /\ ~imuPlaying
  /\ staleTicks > 0

(* C13: after a successful CSV load with N data rows at rate R the time axis  *)
(* has exactly N entries, entry i (from 0) is i / R, and it is non-decreasing. *)
C13_TimeAxis ==
  ~IsNull(csvData)
    => /\ Len(csvTimesSeconds) = Len(Val(csvData))
       /\ \A i \in DOMAIN csvTimesSeconds :
            csvTimesSeconds[i] * SAMPLE_RATE_HZ = (i - 1) * UnitsPerSecond
       /\ \A i \in 1..(Len(csvTimesSeconds) - 1) :
            csvTimesSeconds[i] <= csvTimesSeconds[i + 1]

C13_Witness ==
  /\ lastOp = "loadCsv"
  /\ Len(Val(csvData)) = 2
  /\ csvTimesSeconds = <<0, SamplePeriod>>

Abs(x) == IF x < 0 THEN 0 - x ELSE x
(* x is the millisecond value nearest to exact *)
NearestMs(x, exact) == x % UnitsPerMs = 0 /\ 2 * Abs(x - exact) <= UnitsPerMs

(* C14 as stated: the data slider maximum after loading N data rows at rate R *)
(* is N / R (to the millisecond the slider keeps).                            *)
C14_DurationIsCountOverRate ==
  ~IsNull(csvData)
    => NearestMs(sliderMax, (Len(Val(csvData)) * UnitsPerSecond) \div SAMPLE_RATE_HZ)

(* C14 amended: the data slider maximum after loading N data rows at rate R   *)
(* is the time of the last sample, (N - 1) / R, rounded to the millisecond    *)
(* (2.990 s for 312 rows at 104 Hz), and 0 when there is no data row.         *)
C14_DurationIsLastSampleTime ==
  ~IsNull(csvData)
    => LET n == Len(Val(csvData))
       IN  NearestMs(sliderMax,
                     IF n > 0 THEN ((n - 1) * UnitsPerSecond) \div SAMPLE_RATE_HZ ELSE 0)

C14_Witness ==
  /\ lastOp = "loadCsv"
  /\ Len(Val(csvData)) = 2
  /\ sliderMax = 10 * UnitsPerMs

(* the lines of a text that are not blank, in order *)
NonBlankIndexes(text) == {i \in DOMAIN text : ~text[i].blank}
NthNonBlank(text, k) ==
  text[CHOOSE i \in NonBlankIndexes(text) :
         Cardinality({j \in NonBlankIndexes(text) : j <= i}) = k]

(* C15: a CSV load never fails because of a cell: a missing or non-numeric    *)
(* cell becomes 0, every non-blank line after the header yields exactly one   *)
(* sample, and the load fails only for a text without a non-blank line.       *)
C15_LenientParse ==
  /\ [][lastOp' = "loadCsv"
          => LET text == lastInput'.text
                 rows == Val(csvData')
             IN  /\ Cardinality(NonBlankIndexes(text)) > 0
                 /\ Len(rows) = Cardinality(NonBlankIndexes(text)) - 1
                 /\ \A k \in 1..Len(rows) :
                      LET line == NthNonBlank(text, k + 1)
                      IN  /\ Len(rows[k]) = Len(NthNonBlank(text, 1).cells)
                          /\ \A j \in 1..Len(rows[k]) :
                               rows[k][j] = IF j <= Len(line.cells) /\ line.cells[j].fin
                                            THEN line.cells[j].val ELSE 0]_vars
  /\ [][lastOp' = "loadCsvEmpty"
          => Cardinality(NonBlankIndexes(lastInput'.text)) = 0]_vars
  /\ [](\A text \in CsvTexts :
          Cardinality(NonBlankIndexes(text)) > 0 => ENABLED LoadCsv(text))

C15_Witness ==
  /\ lastOp = "loadCsv"
  /\ lastInput.text = MessyText
  /\ csvData = Some(<<<<0, 7>>, <<3, 0>>>>)

(* C16 as stated: an empty or unparseable upload (CSV upload, or project      *)
(* import whose CSV has no non-blank line) aborts without a partial change:   *)
(* csvData, the time axis, syncOffset, the annotations, the slider bounds and *)
(* the persisted project are as before.                                       *)
C16_EmptyUploadChangesNothing ==
  [][lastOp' \in {"loadCsvEmpty", "importZipEmptyCsv", "importUnparseable"}
       => UNCHANGED <<csvData, csvTimesSeconds, syncOffset, timestamps, sliderMax,
                      localStorage>>]_vars

(* C17: after any sequence of dataset loads exactly one scrub listener of     *)
(* setupDataTimelineSlider is attached to the data slider (none before the    *)
(* first load), so an input event is handled once.                            *)
C17_OneScrubListener ==
  /\ dataSliderListeners = (IF IsNull(csvData) THEN 0 ELSE 1)
  /\ lastOp \in {"loadCsv", "importZip"} /\ lastInput.text # <<>> => dataSliderListeners = 1

C17_Witness ==
  /\ lastOp = "importZip"
  /\ Len(csvTimesSeconds) = 1
  /\ dataMarkedTime = Some(SamplePeriod)
  /\ dataSliderListeners = 1

(* C18 as stated: a chart render for the reference time t sets the x-range to *)
(* [max(0, t - 2.5), t + 2.5] and the marker to the clamped percentage: 50%   *)
(* when t >= 2.5 and 0% when t <= windowStart.                                *)
C18_WindowAndMarker ==
  rendered
    => /\ chartMin = Max(0, RenderRef - windowSize \div 2)
       /\ chartMax = RenderRef + windowSize \div 2
       /\ ~IsNull(markerPos)
       /\ ~Val(markerPos).nan
       /\ 0 <= Val(markerPos).num /\ Val(markerPos).num <= 100 * Val(markerPos).den
       /\ RenderRef >= windowSize \div 2 => Val(markerPos).num = 50 * Val(markerPos).den
       /\ RenderRef <= chartMin => Val(markerPos).num = 0

(* C19: a chart render requested while no dataset is loaded (csvData null or  *)
(* an empty time axis) or while no chart exists changes no chart range and no *)
(* marker position.                                                           *)
C19_RenderWithoutDataIsNoOp ==
  [][(lastOp' = "updateCharts" /\ (IsNull(csvData) \/ Len(csvTimesSeconds) = 0 \/ ~imuCharts))
       => (UNCHANGED chartVars /\ ~rendered')]_vars

C19_Witness ==
  /\ lastOp = "updateCharts"
  /\ ~IsNull(csvData)
  /\ Len(csvTimesSeconds) = 0
  /\ imuCharts
  /\ ~rendered
  /\ chartMin = 0 /\ chartMax = windowSize /\ IsNull(markerPos)

(* the step set syncOffset and the annotation list to the values the loaded   *)
(* project holds (the file just read, or the entry of local storage)          *)
StoredValuesRestored ==
  /\ (/\ lastOp' = "loadProjectFromLocal"
      /\ ~IsNull(currentVideoFileInfo)
      /\ ~IsNull(localStorage[getProjectStorageKey(Val(currentVideoFileInfo))]))
       => /\ syncOffset' = Val(localStorage[getProjectStorageKey(Val(currentVideoFileInfo))]).syncOffset
          /\ timestamps' = Val(localStorage[getProjectStorageKey(Val(currentVideoFileInfo))]).timestamps
  /\ lastOp' \in {"importJson", "importZip", "importZipEmptyCsv"}
       => /\ ~IsNull(lastInput'.syncOffset) => syncOffset' = Val(lastInput'.syncOffset)
          /\ ~IsNull(lastInput'.timestamps) => timestamps' = Val(lastInput'.timestamps)

(* C20 as stated: loading a persisted project (local storage, JSON file, ZIP  *)
(* archive) sets syncOffset and the annotations to the stored values and      *)
(* leaves video.currentTime, the data slider value and dataMarkedTime alone.  *)
C20_ProjectLoadKeepsPlayheads ==
  [][lastOp' \in {"loadProjectFromLocal", "importJson", "importZip"}
       => /\ StoredValuesRestored
          /\ videoCurrentTime' = videoCurrentTime
          /\ sliderValue' = sliderValue
          /\ dataMarkedTime' = dataMarkedTime]_vars

(* C20 amended: loading a persisted project sets syncOffset and the           *)
(* annotations to the stored values and never changes dataMarkedTime; a load  *)
(* from local storage or a JSON file leaves video.currentTime and the data    *)
(* slider value alone; a ZIP archive leaves them alone except that a CSV in   *)
(* the archive is loaded as a dataset (data slider back to 0) and a video in  *)
(* the archive replaces the video source (video.currentTime back to 0).       *)
C20_ProjectLoadRestoresValues ==
  [][lastOp' \in {"loadProjectFromLocal", "importJson", "importZip", "importZipEmptyCsv"}
       => /\ StoredValuesRestored
          /\ dataMarkedTime' = dataMarkedTime
          /\ sliderValue' = (IF lastOp' = "importZip" /\ lastInput'.text # <<>>
                             THEN 0 ELSE sliderValue)
          /\ videoCurrentTime' = (IF IsNull(lastInput'.video) THEN videoCurrentTime ELSE 0)]_vars

C20_Witness ==
  /\ lastOp = "importZip"
  /\ lastInput.text = <<>> /\ IsNull(lastInput.video)
  /\ syncOffset = SamplePeriod
  /\ timestamps = <<[time |-> windowSize \div 2]>>
  /\ videoCurrentTime = 3 * UnitsPerSecond
  /\ sliderValue = SamplePeriod
  /\ dataMarkedTime = Some(SamplePeriod)

----------------------------------------------------------------------------
(* C21 as stated: syncOffset is changed only by the apply-sync action and the *)
(* Sample Series (csvData and its time axis) only by a dataset load.          *)
(* A project import writes syncOffset as well.                                *)
C21_OnlyApplyWritesOffset ==
  [][/\ (syncOffset' # syncOffset => lastOp' = "applySync")
     /\ (<<csvData, csvTimesSeconds>>' # <<csvData, csvTimesSeconds>>
           => lastOp' \in {"loadCsv", "importZip"})]_vars

(* C21 amended: syncOffset is changed only by the apply-sync action and by    *)
(* the load of a persisted project (JSON or ZIP import, local storage), the   *)
(* Sample Series only by a dataset load (CSV upload, CSV entry of an imported *)
(* ZIP); marking, data or video scrub, playback tick, chart render and        *)
(* annotation edits leave both unchanged.                                     *)
OffsetWriters == {"applySync", "importJson", "importZip", "importZipEmptyCsv",
                  "loadProjectFromLocal"}
SeriesWriters == {"loadCsv", "importZip"}
C21_OffsetAndSeriesWriters ==
  [][/\ (lastOp' \notin OffsetWriters => syncOffset' = syncOffset)
     /\ (lastOp' \notin SeriesWriters
           => <<csvData, csvTimesSeconds>>' = <<csvData, csvTimesSeconds>>)]_vars

(* a tick has run on a loaded series under an offset that is not the initial one *)
C21_Witness ==
  /\ lastOp = "tick"
  /\ DatasetLoaded
  /\ rendered
  /\ syncOffset # 0

----------------------------------------------------------------------------
(* C22: selecting a different mode (live/upload) destroys the Sample Series:  *)
(* after selectMode has switched the mode, csvData is null and the time axis  *)
(* is empty.                                                                  *)
C22_ModeSwitchDestroysSeries ==
  lastOp = "selectMode" => (IsNull(csvData) /\ Len(csvTimesSeconds) = 0)

----------------------------------------------------------------------------
(* C23: after every dataset load that ends with a non-empty Sample Series and *)
(* a positive duration (CSV upload through the file input, project import)    *)
(* the IMU playback controls eventually become enabled; whenever a check      *)
(* finds an empty series or zero duration they are disabled and playback is   *)
(* paused.                                                                    *)
RefreshOps == {"refreshEnabledState", "refreshTimer", "pollTick"}
DatasetPlayable == Len(csvTimesSeconds) > 0 /\ getMaxSeconds > 0
C23_ControlsFollowDataset ==
  /\ (lastOp \in {"loadCsv", "importZip"} /\ DatasetPlayable) ~> (controls = "enabled")
  /\ [][(lastOp' \in RefreshOps /\ ~DatasetPlayable')
          => (controls' = "disabled" /\ ~imuPlaying')]_vars

----------------------------------------------------------------------------
(* C24: back and forward each first stop playback, then move the data slider  *)
(* from its current value c to clamp(c - s) or clamp(c + s) within            *)
(* [slider.min, slider.max], where s = max(0.25, 25 * slider.step), and       *)
(* dispatch one input event so that the scrub listener snaps and re-renders.  *)
C24_StepMovesByStepSize ==
  [][lastOp' \in {"back", "forward"}
       => LET s == Max(UnitsPerSecond \div 4, 25 * sliderStep)
              target == IF lastOp' = "back" THEN sliderValue - s ELSE sliderValue + s
              clamped == Min(Max(target, sliderMin), sliderMax)
          IN  /\ ~imuPlaying'
              /\ pendingTicks' = 0
              /\ sliderValue' = clamped
              /\ DatasetLoaded
                   => /\ dataMarkedTime' = Some(SmallestAtOrAfter(clamped))
                      /\ rendered'
                      /\ RenderRef' = SmallestAtOrAfter(clamped)]_vars

(* forward from 0 while playing on the long series: an unclamped step to 0.25 s *)
C24_Witness ==
  /\ lastOp = "forward"
  /\ Len(csvTimesSeconds) = LongRows
  /\ sliderValue = UnitsPerSecond \div 4
  /\ sliderValue < sliderMax
  /\ staleTicks > 0
  /\ dataMarkedTime = Some(26 * SamplePeriod)
  /\ rendered

----------------------------------------------------------------------------
(* the integer nearest to t * 30, the upper one of two equally near *)
NearestStep(t) ==
  CHOOSE n \in 0..(4 * VIDEO_TIMESTEP_FPS) :
    /\ (2 * n - 1) * UnitsPerSecond <= 2 * VIDEO_TIMESTEP_FPS * t
    /\ 2 * VIDEO_TIMESTEP_FPS * t < (2 * n + 1) * UnitsPerSecond

(* C25: after any video scrub or render-loop update with a loaded video of    *)
(* duration > 0 the video step index equals round(t * 30) clamped to          *)
(* [0, totalVideoSteps], where totalVideoSteps = max(1, round(duration * 30)); *)
(* so 0 <= currentVideoStep <= totalVideoSteps always holds.                  *)
C25_StepIndexIsRoundedTime ==
  /\ (lastOp \in {"videoScrub", "renderFrame"} /\ uploadedVideoReady /\ videoDuration > 0)
       => /\ totalVideoSteps = Max(1, NearestStep(videoDuration))
          /\ currentVideoStep = Min(Max(NearestStep(videoCurrentTime), 0), totalVideoSteps)
  /\ 0 <= currentVideoStep
  /\ currentVideoStep <= totalVideoSteps

(* a scrub to 0.05 s, which is 1.5 steps, in a video of 90 steps: step 2 *)
C25_Witness ==
  /\ lastOp = "videoScrub"
  /\ uploadedVideoReady
  /\ videoDuration = 3 * UnitsPerSecond
  /\ videoCurrentTime = 650
  /\ currentVideoStep = 2
  /\ totalVideoSteps = 90

----------------------------------------------------------------------------
(* C26: the annotation list is an ordered sequence: adding a timestamp        *)
(* appends one record at the end; deleting index i with 0 <= i < length       *)
(* removes exactly that record and keeps the order of the others; deleting an *)
(* out-of-range index changes nothing; none of these operations changes       *)
(* syncOffset or either mark.                                                 *)
C26_AnnotationListOrdered ==
  [][/\ lastOp' = "addTimestamp"
          => /\ Len(timestamps') = Len(timestamps) + 1
             /\ SubSeq(timestamps', 1, Len(timestamps)) = timestamps
             /\ timestamps'[Len(timestamps')].time = videoCurrentTime
     /\ lastOp' = "deleteTimestamp"
          => LET i == Val(lastInput'.index)
             IN  IF 0 <= i /\ i < Len(timestamps)
                 THEN /\ Len(timestamps') = Len(timestamps) - 1
                      /\ \A k \in 1..Len(timestamps') :
                           timestamps'[k] = timestamps[IF k <= i THEN k ELSE k + 1]
                 ELSE timestamps' = timestamps
     /\ lastOp' \in {"addTimestamp", "deleteTimestamp"}
          => UNCHANGED <<syncOffset, videoMarkedTime, dataMarkedTime>>]_vars

(* the middle one of three records has been deleted while a video mark is set *)
C26_Witness ==
  /\ lastOp = "deleteTimestamp"
  /\ lastInput.index = Some(1)
  /\ timestamps = <<[time |-> 0], [time |-> 3 * UnitsPerSecond]>>
  /\ ~IsNull(videoMarkedTime)

----------------------------------------------------------------------------
(* C27: each mark candidate is set only by its dedicated user action:         *)
(* videoMarkedTime changes from null only on a mark-video click and           *)
(* dataMarkedTime changes from null only on a mark-data click; scrubbing the  *)
(* data slider or IMU playback never sets a mark.                             *)
C27_MarksSetOnlyByMarkClicks ==
  [][/\ (IsNull(videoMarkedTime) /\ ~IsNull(videoMarkedTime')) => lastOp' = "markVideo"
     /\ (IsNull(dataMarkedTime) /\ ~IsNull(dataMarkedTime')) => lastOp' = "markData"
     /\ lastOp' \in ImuSideOps => UNCHANGED <<videoMarkedTime, dataMarkedTime>>]_vars

----------------------------------------------------------------------------
(* C28: a mark-data click with no data mark yet sets dataMarkedTime to 0 when *)
(* a non-empty Sample Series exists; with no dataset loaded (csvData null or  *)
(* empty time axis) it is a no-op that leaves both marks and the apply        *)
(* control unchanged. A mark-video click sets videoMarkedTime to the video's  *)
(* current time whatever its previous value.                                  *)
C28_MarkClicks ==
  [][/\ (lastOp' = "markData" /\ DatasetLoaded /\ IsNull(dataMarkedTime))
          => dataMarkedTime' = Some(0)
     /\ (lastOp' = "markData" /\ ~DatasetLoaded)
          => UNCHANGED <<videoMarkedTime, dataMarkedTime, setSyncBtnDisabled>>
     /\ lastOp' = "markVideo" => videoMarkedTime' = Some(videoCurrentTime)]_vars

(* mark-data has been clicked on a series with a header line only, after a   *)
(* video mark at 3 s: no data mark, the apply control still disabled         *)
C28_Witness ==
  /\ lastOp = "markData"
  /\ ~IsNull(csvData)
  /\ Len(csvTimesSeconds) = 0
  /\ IsNull(dataMarkedTime)
  /\ videoMarkedTime = Some(3 * UnitsPerSecond)
  /\ setSyncBtnDisabled

----------------------------------------------------------------------------
(* C29: pressing Stop ends tracking: afterwards isRunning is false, the       *)
(* pending animation frame is cancelled, in upload mode the video is paused,  *)
(* and no pose is estimated or drawn by any renderFrame execution that        *)
(* continues or starts after the stop.                                        *)
C29_StopEndsTracking ==
  /\ lastOp = "stopTracking"
       => /\ ~isRunning
          /\ ~animationIdQueued
          /\ currentMode = "upload" => videoPaused
  /\ lastOp \in {"frameEstimate", "frameDraw"} => isRunning

----------------------------------------------------------------------------
(* C30: project persistence is keyed by the current video file's name and     *)
(* size: saveProjectToLocal followed by loadProjectFromLocal for the same     *)
(* file restores the same syncOffset and annotation list, a project saved     *)
(* under one file is never loaded for a file with a different name or size    *)
(* (a save writes only the entry of the current file, a load reads only that  *)
(* entry, and two files share an entry only if name and size are equal), and  *)
(* with no current video file both operations change nothing.                 *)
EntryOf(store, file) == store[getProjectStorageKey(file)]
C30_ProjectKeyedByNameAndSize ==
  [][/\ (lastOp = "saveProjectToLocal" /\ lastOp' = "loadProjectFromLocal")
          => UNCHANGED <<syncOffset, timestamps>>
     /\ \A f \in AllFiles :
          EntryOf(localStorage', f) # EntryOf(localStorage, f)
            => /\ currentVideoFileInfo' = Some(f)
               /\ EntryOf(localStorage', f)
                    = Some([syncOffset |-> syncOffset', timestamps |-> timestamps'])
     /\ lastOp' = "loadProjectFromLocal"
          => /\ localStorage' = localStorage
             /\ \/ UNCHANGED <<syncOffset, timestamps>>
                \/ /\ ~IsNull(currentVideoFileInfo)
                   /\ EntryOf(localStorage, Val(currentVideoFileInfo))
                        = Some([syncOffset |-> syncOffset', timestamps |-> timestamps'])
     /\ (lastOp' \in {"saveProjectToLocal", "loadProjectFromLocal"}
           /\ IsNull(currentVideoFileInfo))
          => UNCHANGED <<syncOffset, timestamps, localStorage>>]_vars

(* a load for the file v1 of size 2 has restored its own project while the   *)
(* file v1 of size 1 has another one stored                                  *)
C30_Witness ==
  /\ lastOp = "loadProjectFromLocal"
  /\ currentVideoFileInfo = Some([name |-> "v1", size |-> 2])
  /\ syncOffset = SamplePeriod
  /\ Len(timestamps) = 1
  /\ EntryOf(localStorage, [name |-> "v1", size |-> 2])
       = Some([syncOffset |-> syncOffset, timestamps |-> timestamps])
  /\ EntryOf(localStorage, [name |-> "v1", size |-> 1])
       = Some([syncOffset |-> 0, timestamps |-> <<>>])

----------------------------------------------------------------------------
(* The pose render loop of each of the three pages *)
NextEnded ==
  \/ \E v \in PoseVariants : OpenPage(v)
  \/ LoadCsv(CleanText(MaxRows))
  \/ \E d \in VideoDurations : HandleFileChange(d)
  \/ OnLoadedMetadata
  \/ \E mode \in Modes : SelectMode(mode)
  \/ HandleStart
  \/ \E branch \in Modes, ok \in BOOLEAN : StartResume(branch, ok)
  \/ StopTracking
  \/ /\ loopVariant = "combined"
     /\ \E ready, ended, estimate, due \in BOOLEAN : FrameBegin(ready, ended, estimate, due)
  \/ /\ loopVariant = "combined"
     /\ \E pose, due \in BOOLEAN : FrameResume(pose, due)
  \/ /\ loopVariant = "videoWeb"
     /\ \E ready, ended, estimate \in BOOLEAN : VideoWebFrameBegin(ready, ended, estimate)
  \/ /\ loopVariant = "videoWeb"
     /\ \E pose \in BOOLEAN : VideoWebFrameResume(pose)
  \/ /\ loopVariant = "progress1"
     /\ \E ready, ended, estimate, due \in BOOLEAN :
          MovenetFrameBegin(ready, ended, estimate, due)
  \/ /\ loopVariant = "progress1"
     /\ \E pose, due \in BOOLEAN : MovenetFrameResume(pose, due)

SpecEnded == Init /\ [][NextEnded]_vars

(* The Bluetooth terminal page on its own *)
NextBluetooth ==
  \/ ScanClick
  \/ \E i \in 1..Len(ScanStages), resolved \in BOOLEAN : ScanResume(i, resolved)
  \/ GattServerDisconnected
  \/ sendCommand
  \/ WriteResolved
  \/ WriteRejected

SpecBluetooth == Init /\ [][NextBluetooth]_vars

(* The two variants side by side, given the same inputs *)
NextVariants ==
  \/ \E n \in {1, MaxRows} : VariantsLoadCsv(CleanText(n))
  \/ \E t \in ScrubTimes \cup {sliderMax} : VariantsDataScrub(t)
  \/ VariantsMarkVideo
  \/ VariantsMarkData
  \/ VariantsApplySync
  \/ \E d \in VideoDurations : HandleFileChange(d)
  \/ OnLoadedMetadata
  \/ \E t \in VideoTimes : VideoScrub(t)
  \/ \E due \in BOOLEAN : VariantsRenderFrame(due)

SpecVariants == Init /\ [][NextVariants]_vars

(* C31: while Playing, a tick whose advanced time is below the duration moves *)
(* the slider to current + elapsed * rate, leaves the driver Playing and      *)
(* schedules exactly one next tick: the input event the tick dispatches does  *)
(* not stop playback.                                                         *)
C31_TickKeepsPlaying ==
  [][(/\ imuPlaying
      /\ lastOp' = "tick"
      /\ sliderValue' < sliderMax)
       => /\ \E elapsed \in FrameDts \cup {0} :
               sliderValue' = sliderValue + elapsed * speedValue
          /\ imuPlaying'
          /\ pendingTicks' = 1]_vars

----------------------------------------------------------------------------
(* C32: given the same files, scrubs and clicks, the Progress 3 variant and   *)
(* the earlier variant hold the same marks and show the same chart window:    *)
(* after an apply with the marks (v, d), a render for the video time t is at  *)
(* t - v + d in both (at t before any apply), and a data scrub renders at the *)
(* snapped data time in both.                                                 *)
VariantsRef ==
  IF IsNull(appliedMarks) THEN videoCurrentTime
  ELSE videoCurrentTime - Val(appliedMarks).v + Val(appliedMarks).d

VariantsWindowAt(t) ==
  /\ chartMin = Max(0, t - windowSize \div 2)
  /\ chartMax = t + windowSize \div 2
  /\ combined.chartMin = Max(0, t - windowSize \div 2)
  /\ combined.chartMax = t + windowSize \div 2
  /\ combined.markerPos = markerPos

C32_VariantsAgree ==
  /\ (lastOp \in ScrubOps \cup {"renderFrame"}) => combined.rendered = rendered
  /\ combined.videoMarkedTime = videoMarkedTime
  /\ combined.dataMarkedTime = dataMarkedTime
  /\ (lastOp = "renderFrame" /\ rendered) => VariantsWindowAt(VariantsRef)
  /\ (lastOp \in ScrubOps /\ rendered)
       => VariantsWindowAt(SmallestAtOrAfter(sliderValue))

C32_Witness ==
  /\ lastOp = "renderFrame"
  /\ rendered
  /\ ~IsNull(appliedMarks)
  /\ Val(appliedMarks).v = windowSize \div 2
  /\ Val(appliedMarks).d = SamplePeriod
  /\ videoCurrentTime = 3 * UnitsPerSecond
  /\ combined.syncOffset = SamplePeriod - windowSize \div 2
  /\ syncOffset = windowSize \div 2 - SamplePeriod
  /\ combined.chartMax = 3 * UnitsPerSecond + SamplePeriod

----------------------------------------------------------------------------
(* C33: at most one pose render loop is alive at any time: while tracking is  *)
(* running there is never more than one renderFrame execution queued or       *)
(* suspended at its await, so never two chains that keep rescheduling         *)
(* themselves.                                                                *)
C33_OneRenderLoop == isRunning => scheduledFrames + awaitingPose <= 1

----------------------------------------------------------------------------
(* C34: of the tick callbacks queued at any time, at most one will act on the *)
(* slider when the queue is run, whatever play, pause and toggle clicks came  *)
(* between two display frames: a callback acts when it finds the driver       *)
(* Playing, and the driver is as the acting callback's own input event left   *)
(* it when the next callback runs.                                            *)
RECURSIVE ActingTicks(_, _)
ActingTicks(queued, p) ==
  IF queued = 0 THEN 0
  ELSE IF ~p.imuPlaying THEN ActingTicks(queued - 1, p)
  ELSE 1 + ActingTicks(queued - 1, SliderInputListener(p))

C34_OneActingTick ==
  /\ ActingTicks(pendingTicks + staleTicks, PlayState) <= 1
  /\ lastOp \in TickOps => ~imuPlaying

C34_Witness ==
  /\ lastOp = "togglePlay"
  /\ imuPlaying
  /\ pendingTicks = 1
  /\ staleTicks = 1

----------------------------------------------------------------------------
(* C35: for every reference time a render receives, the negative ones of      *)
(* videoTime - syncOffset included, the window is well formed (its start is   *)
(* below its end) and the marker percentage is a finite number in [0, 100],   *)
(* and 0 whenever the reference time is not positive.                         *)
C35_WindowWellFormedForAnyTime ==
  rendered =>
    /\ chartMin < chartMax
    /\ ~Val(markerPos).nan
    /\ 0 <= Val(markerPos).num
    /\ Val(markerPos).num <= 100 * Val(markerPos).den
    /\ RenderRef <= 0 => Val(markerPos).num = 0

----------------------------------------------------------------------------
(* C36: in every state a non-null dataMarkedTime is a time of the series      *)
(* loaded at that moment: an element of the current time axis (which holds 0  *)
(* whenever the series is not empty); also after a shorter CSV is loaded.     *)
C36_DataMarkOnCurrentAxis ==
  ~IsNull(dataMarkedTime) => Val(dataMarkedTime) \in SampleTimes

----------------------------------------------------------------------------
(* C37: a mark-data click with a dataset loaded records the data time the     *)
(* slider shows: after the click dataMarkedTime is the snapped time of the    *)
(* slider's position, also when the click follows an apply that left the      *)
(* slider at a non-zero position.                                             *)
C37_MarkDataRecordsSliderTime ==
  (lastOp = "markData" /\ DatasetLoaded)
    => dataMarkedTime = Some(SmallestAtOrAfter(sliderValue))

----------------------------------------------------------------------------
(* C38 as stated: after any sequence of CSV loads, scrubs, play/pause,        *)
(* back/forward and ticks the data slider value is at least 0 and at most the *)
(* last timestamp of the loaded series.                                       *)
C38_PlayheadWithinLastTimestamp ==
  /\ sliderValue >= 0
  /\ sliderValue <= (IF Len(csvTimesSeconds) > 0 THEN LastSampleTime ELSE 0)

(* C38 amended: the data slider value is at least 0 and at most the slider    *)
(* maximum, which is the last timestamp of the loaded series rounded to the   *)
(* millisecond (0 without a data row) and so can lie above the last timestamp *)
(* by up to half a millisecond.                                               *)
C38_PlayheadWithinSliderRange ==
  /\ sliderValue >= 0
  /\ sliderValue <= sliderMax
  /\ NearestMs(sliderMax, IF Len(csvTimesSeconds) > 0 THEN LastSampleTime ELSE 0)

C38_Witness ==
  /\ lastOp = "forward"
  /\ Len(csvTimesSeconds) = 2
  /\ sliderValue = sliderMax
  /\ sliderValue > LastSampleTime

----------------------------------------------------------------------------
(* C39 as stated: in every variant with a pose render loop, a frame that      *)
(* finds the uploaded video ended in upload mode stops the loop: isRunning    *)
(* is false afterwards and the frame schedules no further frame.              *)
FoundEndedOps == {"frameEnded", "frameEndedContinues"}

C39_EndedVideoStopsLoop ==
  /\ [](lastOp \in FoundEndedOps => ~isRunning)
  /\ [][lastOp' \in FoundEndedOps
          => scheduledFrames' + awaitingPose' < scheduledFrames + awaitingPose]_vars

(* C39 amended: in the Combined and Video - Web variants a frame that finds   *)
(* the uploaded video ended in upload mode stops tracking: isRunning is       *)
(* false, the video is paused, and that frame neither schedules a frame nor   *)
(* estimates a pose. In the Progress 1 variant such a frame only pauses the   *)
(* video: isRunning stays true and the frame goes on to estimate or draw and  *)
(* to keep the loop alive.                                                    *)
C39_EndedVideoStopsLoopButInProgress1 ==
  /\ [](lastOp = "frameEnded"
          => loopVariant \in {"combined", "videoWeb"} /\ ~isRunning /\ videoPaused)
  /\ [](lastOp = "frameEndedContinues"
          => /\ loopVariant = "progress1"
             /\ isRunning
             /\ videoPaused
             /\ scheduledFrames + awaitingPose >= 1)
  /\ [][lastOp' = "frameEnded"
          => /\ scheduledFrames' < scheduledFrames
             /\ awaitingPose' = awaitingPose]_vars

C39_Witness ==
  /\ loopVariant = "videoWeb"
  /\ lastOp = "frameEnded"
  /\ currentMode = "upload"
  /\ uploadedVideoReady
  /\ ~isRunning
  /\ scheduledFrames = 0
  /\ awaitingPose = 0

----------------------------------------------------------------------------
(* C40: at most one command write is in flight. sendCommand starts a write    *)
(* only when btConnected and btReady hold and commandChar is defined, and by  *)
(* then it has cleared btReady; btReady is true again after the write         *)
(* resolved and after it rejected, so after a failed write a sendCommand on a *)
(* connected page writes again.                                               *)
WriteSettledOps == {"writeResolved", "writeRejected"}

C40_OneWriteInFlight ==
  /\ [](writesInFlight <= 1)
  /\ [](btReady <=> writesInFlight = 0)
  /\ [][writesInFlight' > writesInFlight =>
          btConnected /\ btReady /\ commandChar /\ ~btReady']_vars
  /\ [][lastOp' = "sendCommand" <=> writesInFlight' = writesInFlight + 1]_vars
  /\ [][lastOp' \in WriteSettledOps => btReady']_vars
  /\ [][lastOp = "writeRejected" /\ btConnected /\ commandChar /\ lastOp' \in
          {"sendCommand", "sendCommandSkipped"} => lastOp' = "sendCommand"]_vars

(* a write of the connected page was rejected and the page is ready again *)
C40_Witness ==
  /\ lastOp = "writeRejected"
  /\ writesInFlight = 0
  /\ btReady
  /\ btConnected
  /\ commandChar

====
